---- MODULE Spec2Model ----
(***************************************************************************)
(* Verification model of SimpleRAG4Repo: the /query handler of the API     *)
(* server (src/src/api/server.py), the Conversational RAG Model            *)
(* (src/src/llm/models.py), the adaptive retrieval of the Advanced RAG     *)
(* processor (src/src/retrieval/advanced_rag.py), the timing statistics    *)
(* (src/src/utils/performance.py), the query processors, the retrieval     *)
(* strategies and their registry (src/src/retrieval/query_processors.py,   *)
(* retrieval_strategies.py), the document loader and the ingestion CLI     *)
(* (src/src/data_ingestion/loaders.py, src/scripts/ingest.py) and the      *)
(* sessions of the chat console (src/app/app.py).                          *)
(*                                                                         *)
(* The hosted LLM, the retriever and the vector store are external; every  *)
(* call to them is a nondeterministic choice (a returned value or a raised *)
(* exception) carried in an environment record env.                        *)
(***************************************************************************)
EXTENDS Integers, Sequences, FiniteSets, TLC

VARIABLES
    serverState,              \* "starting" | "running" | "aborted"
    vector_store,             \* server.py global: "None" | "VectorStore"
    rag_model,                \* server.py global: "None" | "RAGModel"
    use_advanced_rag,         \* RAGModel.use_advanced_rag
    memory,                   \* RAGModel.memory.chat_memory.messages
    last_retrieval_metadata,  \* RAGModel.last_retrieval_metadata
    request,                  \* JSON body of the request handled last
    response,                 \* HTTP response of the request handled last
    trace,                    \* external calls made while handling it
    ar_in,                    \* adaptive_retrieval called on its own: input
    ar_out,                   \* adaptive_retrieval called on its own: outcome
    global_timing_stats,      \* performance.py:143, the TimingStats instance
    now,                      \* time.time()
    frames,                   \* measure/timed blocks entered and not yet left
    recorded,                 \* history: the elapsed times folded, per operation
    timing_last,              \* outcome of the timing call made last
    strategies,               \* StrategyRegistry._strategies: name -> class
    registered,               \* history: the classes registered, in order
    lib_in,                   \* library operation called on its own: input
    lib_out,                  \* library operation called on its own: outcome
    session_state,            \* app.py: st.session_state of each browser session
    console_pc,               \* app.py: what each session's script run waits for
    net,                      \* the request or the reply in flight of each session
    turns                     \* history: the turns the server answered since the last clear

vars == <<serverState, vector_store, rag_model, use_advanced_rag, memory,
          last_retrieval_metadata, request, response, trace, ar_in, ar_out,
          global_timing_stats, now, frames, recorded, timing_last, strategies,
          registered, lib_in, lib_out, session_state, console_pc, net, turns>>

consoleVars == <<session_state, console_pc, net, turns>>

timingVars == <<global_timing_stats, now, frames, recorded, timing_last>>

libVars == <<strategies, registered, lib_in, lib_out>>

serverVars == <<serverState, vector_store, rag_model, use_advanced_rag, memory,
                last_retrieval_metadata, request, response, trace>>

-----------------------------------------------------------------------------
(* Bounds *)

MaxTurns == 2       \* (question, answer) pairs kept before queries stop
MaxSubq == 2        \* longest sub-question list the decomposition LLM returns

(* Program constants *)

K_DEFAULT == 5      \* adaptive_retrieval(query, k=5)
MIN_SUB_K == 2      \* max(2, k // len(subquestions))
FENCE_HEAD_LEN == 7 \* analysis_result[7:-3]
FENCE_TAIL_LEN == 3

-----------------------------------------------------------------------------
(* Values *)

EmptyDict == [x \in {} |-> x]

Min(a, b) == IF a <= b THEN a ELSE b
Max(a, b) == IF a >= b THEN a ELSE b

\* Python's list[:n]
Take(s, n) ==
    IF n >= 0 THEN SubSeq(s, 1, Min(Len(s), n)) ELSE SubSeq(s, 1, Max(Len(s) + n, 0))

\* Questions are strings, kept as character sequences so that strip() is computed
Whitespace == {" "}

Questions ==
    { <<>>, <<" ">>, <<"a">>, <<" ", "b", " ">> }

RECURSIVE lstrip(_)
lstrip(s) ==
    IF s = <<>> THEN <<>>
    ELSE IF Head(s) \in Whitespace THEN lstrip(Tail(s)) ELSE s

RECURSIVE rstrip(_)
rstrip(s) ==
    IF s = <<>> THEN <<>>
    ELSE IF s[Len(s)] \in Whitespace THEN rstrip(SubSeq(s, 1, Len(s) - 1)) ELSE s

\* str.strip()
strip(s) == rstrip(lstrip(s))

\* Documents: page_content and metadata; D1 and D2 share their content
D1 == [page_content |-> "c1", metadata |-> "m1"]
D2 == [page_content |-> "c1", metadata |-> "m2"]
D3 == [page_content |-> "c2", metadata |-> "m3"]

\* Outcome of an external call: a value, or a raised exception
Ok(v) == [ok |-> TRUE, val |-> v]
Raise(e) == [ok |-> FALSE, err |-> e]

-----------------------------------------------------------------------------
(* The LLM's query-analysis output (advanced_rag.py:162).  The text is kept *)
(* as its three parts: what precedes the body, the body, what follows it.  *)

\* the parts around the body: the opening json fence, the closing fence, the
\* closing fence followed by a newline, or nothing
FENCE_OPEN == "fence_json"
FENCE_CLOSE == "fence"
FENCE_CLOSE_NL == "fence_newline"

\* number of characters of a part
PartLen(part) ==
    CASE part = FENCE_OPEN -> 7
      [] part = FENCE_CLOSE -> 3
      [] part = FENCE_CLOSE_NL -> 4
      [] OTHER -> 0

Complexities == {"simple", "medium", "complex"}

\* names the analysis may recommend: those of the prompt (advanced_rag.py:148),
\* those of the Strategy Registry, and one that is neither
RecommendedNames ==
    {"basic", "decomposition", "hybrid", "query_rewrite", "hyde", "not_a_real_strategy"}

\* json_bool: a JSON object using true/false; py_bool: a Python dict literal
\* using True/False; plain: an object without booleans, valid as both;
\* garbage: neither
Syntaxes == {"json_bool", "py_bool", "plain", "garbage"}

AnalysisBodies ==
    [syntax : Syntaxes, complexity : Complexities, recommended_strategy : RecommendedNames]

AnalysisShapes ==
    { <<"", "">>, <<FENCE_OPEN, FENCE_CLOSE>>, <<FENCE_OPEN, FENCE_CLOSE_NL>>,
      <<FENCE_OPEN, "">> }

AnalysisTexts ==
    { [head |-> sh[1], body |-> b, tail |-> sh[2]] : sh \in AnalysisShapes, b \in AnalysisBodies }

\* the dict a well-formed body denotes
BodyDict(b) ==
    [complexity |-> b.complexity,
     requires_code_examples |-> TRUE,
     is_technical |-> FALSE,
     recommended_strategy |-> b.recommended_strategy]

\* str.startswith("```json")
startswith_json_fence(text) == text.head = FENCE_OPEN

\* text[7:-3] of a text that starts with the 7-character fence: the body is
\* left intact exactly when the text ends with the 3-character fence
Slice_7_3(text) ==
    [body |-> text.body,
     intact |-> /\ PartLen(text.head) = FENCE_HEAD_LEN
                /\ PartLen(text.tail) = FENCE_TAIL_LEN]

\* json.loads: a dict, or json.JSONDecodeError
json_loads(sliced) ==
    IF sliced.intact /\ sliced.body.syntax \in {"json_bool", "plain"}
    THEN Ok(BodyDict(sliced.body))
    ELSE Raise("JSONDecodeError")

\* ast.literal_eval of the whole text: a dict, ValueError (a name such as
\* true/false) or SyntaxError
ast_literal_eval(text) ==
    IF text.head = "" /\ text.tail = "" /\ text.body.syntax \in {"py_bool", "plain"}
    THEN Ok(BodyDict(text.body))
    ELSE IF text.head = "" /\ text.tail = "" /\ text.body.syntax = "json_bool"
    THEN Raise("ValueError")
    ELSE Raise("SyntaxError")

\* advanced_rag.py:179-184
DefaultAnalysis ==
    [complexity |-> "medium",
     requires_code_examples |-> FALSE,
     is_technical |-> TRUE,
     recommended_strategy |-> "basic"]

\* except json.JSONDecodeError (advanced_rag.py:175): no other error is caught
ExceptJSONDecodeError(r, default) ==
    IF ~r.ok /\ r.err = "JSONDecodeError" THEN Ok(default) ELSE r

\* advanced_rag.py:164-184
ParseAnalysis(analysis_result) ==
    ExceptJSONDecodeError(
        IF startswith_json_fence(analysis_result)
        THEN json_loads(Slice_7_3(analysis_result))
        ELSE ast_literal_eval(analysis_result),
        DefaultAnalysis)

-----------------------------------------------------------------------------
(* External calls made by one adaptive retrieval.  env holds the outcome   *)
(* of each: env.analysis, env.rewrite, env.decomp are LLM completions (or  *)
(* a raised error), env.retr[i] is the outcome of the i-th retriever call. *)
(* Every operation takes the calls made so far and returns its value or    *)
(* the raised error together with the calls made up to then.               *)

LLMCall(op, arg) == [op |-> op, arg |-> arg]
RetrieverCall(q, k) == [op |-> "retriever", arg |-> q, k |-> k]

Returned(v, calls) == [ok |-> TRUE, val |-> v, calls |-> calls]
Raised(e, calls) == [ok |-> FALSE, err |-> e, calls |-> calls]

\* the outcome o of an external call, entered with the calls
Out(o, calls) == IF o.ok THEN Returned(o.val, calls) ELSE Raised(o.err, calls)

\* sequencing: an error raised by r propagates, otherwise K goes on with r
Then(r, K(_)) == IF r.ok THEN K(r) ELSE r

\* try/except around r
Try(r, K(_), Except(_)) == IF r.ok THEN K(r) ELSE Except(r)

\* advanced_rag.py:44-84: the LLM's structured output, or the original query
\* when it does not parse; an error of the LLM call itself propagates
query_rewrite(original_query, calls, env) ==
    Out(IF env.rewrite.ok /\ env.rewrite.val.parses
        THEN Ok(env.rewrite.val.rewritten_query)
        ELSE IF env.rewrite.ok THEN Ok(original_query) ELSE env.rewrite,
        calls \o << LLMCall("rewrite_llm", original_query) >>)

\* advanced_rag.py:86-128
query_decomposition(original_query, calls, env) ==
    Out(IF env.decomp.ok /\ env.decomp.val.parses
        THEN Ok(env.decomp.val.subquestions)
        ELSE IF env.decomp.ok THEN Ok(<< original_query >>) ELSE env.decomp,
        calls \o << LLMCall("decomposition_llm", original_query) >>)

\* base_retriever.get_relevant_documents(query, k=k), the n-th retriever call
get_relevant_documents(q, k, n, calls, env) ==
    Out(env.retr[n], calls \o << RetrieverCall(q, k) >>)

\* advanced_rag.py:203-207: the loop over the sub-questions, from the i-th on;
\* acc holds all_docs and the calls so far
RECURSIVE RetrieveSubquestions(_, _, _, _, _)
RetrieveSubquestions(subquestions, i, k, acc, env) ==
    IF i > Len(subquestions) THEN acc
    ELSE Then(query_rewrite(subquestions[i], acc.calls, env), LAMBDA rw :
         Then(get_relevant_documents(rw.val, Max(MIN_SUB_K, k \div Len(subquestions)),
                                     i, rw.calls, env), LAMBDA docs :
         RetrieveSubquestions(subquestions, i + 1, k,
                              Returned(acc.val \o docs.val, docs.calls), env)))

\* documents are told apart as wholes, page_content and metadata
RECURSIVE Deduplicate_by_document(_, _)
Deduplicate_by_document(all_docs, seen_contents) ==
    IF all_docs = <<>> THEN <<>>
    ELSE IF Head(all_docs) \notin seen_contents
         THEN << Head(all_docs) >>
              \o Deduplicate_by_document(Tail(all_docs), seen_contents \cup {Head(all_docs)})
         ELSE Deduplicate_by_document(Tail(all_docs), seen_contents)

\* advanced_rag.py:209-215: keep the first document of each page_content
RECURSIVE Deduplicate(_, _)
Deduplicate(all_docs, seen_contents) ==
    IF all_docs = <<>> THEN <<>>
    ELSE IF Head(all_docs).page_content \notin seen_contents
         THEN << Head(all_docs) >>
              \o Deduplicate(Tail(all_docs), seen_contents \cup {Head(all_docs).page_content})
         ELSE Deduplicate(Tail(all_docs), seen_contents)

\* advanced_rag.py:192, 198, 222: the branch chosen from the analysis
SelectBranch(analysis) ==
    IF analysis.recommended_strategy = "basic" \/ analysis.complexity = "simple"
    THEN "basic"
    ELSE IF analysis.recommended_strategy = "decomposition" \/ analysis.complexity = "complex"
    THEN "decomposition"
    ELSE "hybrid"

\* advanced_rag.py:192-196
BasicBranch(analysis, query, k, calls, env) ==
    Then(get_relevant_documents(query, k, 1, calls, env), LAMBDA docs :
    Returned([documents |-> docs.val,
              metadata |-> [analysis |-> analysis, strategy_used |-> "basic"]],
             docs.calls))

\* advanced_rag.py:198-220
DecompositionBranch(analysis, query, k, calls, env) ==
    Then(query_decomposition(query, calls, env), LAMBDA subq :
    Then(RetrieveSubquestions(subq.val, 1, k, Returned(<<>>, subq.calls), env), LAMBDA all :
    Returned([documents |-> Take(Deduplicate(all.val, {}), k),
              metadata |-> [analysis |-> analysis,
                            strategy_used |-> "decomposition",
                            subquestions |-> subq.val]],
             all.calls)))

\* advanced_rag.py:222-227
HybridBranch(analysis, query, k, calls, env) ==
    Then(query_rewrite(query, calls, env), LAMBDA rw :
    Then(get_relevant_documents(rw.val, k, 1, rw.calls, env), LAMBDA docs :
    Returned([documents |-> docs.val,
              metadata |-> [analysis |-> analysis,
                            strategy_used |-> "hybrid",
                            rewritten_query |-> rw.val]],
             docs.calls)))

\* advanced_rag.py:188-229
RunBranch(branch, analysis, query, k, calls, env) ==
    CASE branch = "basic" -> BasicBranch(analysis, query, k, calls, env)
      [] branch = "decomposition" -> DecompositionBranch(analysis, query, k, calls, env)
      [] OTHER -> HybridBranch(analysis, query, k, calls, env)

\* advanced_rag.py:130-229, AdvancedRAGProcessor.adaptive_retrieval
adaptive_retrieval(base_retriever_bound, query, k, calls, env) ==
    IF ~base_retriever_bound THEN Raised("ValueError", calls)
    ELSE Then(Out(env.analysis, calls \o << LLMCall("analysis_llm", query) >>),
              LAMBDA analysis_result :
         Then(Out(ParseAnalysis(analysis_result.val), analysis_result.calls),
              LAMBDA analysis :
         RunBranch(SelectBranch(analysis.val), analysis.val, query, k, analysis.calls, env)))

-----------------------------------------------------------------------------
(* Performance timing utility, src/src/utils/performance.py *)

\* operation names timed in this model
Operations == {"op1", "op2"}

\* current_operation is None
NoOperation == "None"

\* start_time: None, or the time.time() read by start_timer
NoTime == [set |-> FALSE]
Time(t) == [set |-> TRUE, t |-> t]

\* float('inf') and the finite times
Inf == [inf |-> TRUE]
Fin(x) == [inf |-> FALSE, x |-> x]

\* performance.py:16-20, TimingStats.reset (called by __init__)
TimingStats_reset ==
    [stats |-> EmptyDict, current_operation |-> NoOperation, start_time |-> NoTime]

\* performance.py:36-41: the entry created for an operation seen first
NewEntry == [count |-> 0, total_time |-> 0, min_time |-> Inf, max_time |-> 0]

\* the minimum is kept from the first measurement on
min_time_update_first(min_time, elapsed) ==
    IF min_time.inf THEN Fin(elapsed) ELSE min_time

\* performance.py:46: min(stats['min_time'], elapsed)
min_time_update(min_time, elapsed) ==
    IF min_time.inf \/ elapsed < min_time.x THEN Fin(elapsed) ELSE min_time

\* performance.py:47: max(stats['max_time'], elapsed)
max_time_update(max_time, elapsed) ==
    IF elapsed > max_time THEN elapsed ELSE max_time

\* the total is assigned, not added to
Fold_overwrites_total(entry, elapsed) ==
    [count |-> entry.count + 1,
     total_time |-> elapsed,
     min_time |-> min_time_update(entry.min_time, elapsed),
     max_time |-> max_time_update(entry.max_time, elapsed)]

\* performance.py:43-47: the entry after one more elapsed time
Fold(entry, elapsed) ==
    [count |-> entry.count + 1,
     total_time |-> entry.total_time + elapsed,
     min_time |-> min_time_update(entry.min_time, elapsed),
     max_time |-> max_time_update(entry.max_time, elapsed)]

\* an active timer is kept until it is stopped
start_timer_keeps_active(self, operation, t) ==
    IF self.current_operation # NoOperation THEN self
    ELSE [self EXCEPT !.current_operation = operation, !.start_time = Time(t)]

\* performance.py:22-26, TimingStats.start_timer at time t
start_timer(self, operation, t) ==
    [self EXCEPT !.current_operation = operation, !.start_time = Time(t)]

\* performance.py:30: the test of stop_timer's early return
NoActiveTimer(self) == self.current_operation = NoOperation \/ ~self.start_time.set

\* performance.py:35-47: stats after elapsed is folded into operation's entry
FoldInto(stats, operation, elapsed) ==
    [o \in DOMAIN stats \cup {operation} |->
        IF o = operation
        THEN Fold(IF operation \in DOMAIN stats THEN stats[operation] ELSE NewEntry, elapsed)
        ELSE stats[o]]

\* performance.py:28-52, TimingStats.stop_timer at time t: the instance
\* afterwards and the value returned
stop_timer(self, t) ==
    IF NoActiveTimer(self) THEN [self |-> self, ret |-> 0]
    ELSE [self |-> [stats |-> FoldInto(self.stats, self.current_operation,
                                       t - self.start_time.t),
                    current_operation |-> NoOperation,
                    start_time |-> NoTime],
          ret |-> t - self.start_time.t]

\* the quotient n / d of a float division, kept exact
Ratio(n, d) == [num |-> n, den |-> d]

\* performance.py:54-65, TimingStats.get_stats: a copy of every entry with
\* the derived avg_time
get_stats(self) ==
    [o \in DOMAIN self.stats |->
        [count |-> self.stats[o].count,
         total_time |-> self.stats[o].total_time,
         min_time |-> self.stats[o].min_time,
         max_time |-> self.stats[o].max_time,
         avg_time |-> IF self.stats[o].count > 0
                      THEN Ratio(self.stats[o].total_time, self.stats[o].count)
                      ELSE Ratio(0, 1)]]

\* performance.py:67-69, TimingStats.get_summary
get_summary(self) == [o \in DOMAIN self.stats |-> self.stats[o].total_time]

\* the timer is stopped only when the block returns
measure_exit_no_finally(self, t, raised) ==
    IF raised THEN self ELSE stop_timer(self, t).self

\* performance.py:91-94: the finally clause of measure at time t
measure_exit(self, t, raised) == stop_timer(self, t).self

\* performance.py:129-135: the finally clause of the timed wrapper
timed_exit(self, stats_instance, t, raised) ==
    IF stats_instance THEN stop_timer(self, t).self ELSE self

\* no block entered, nothing recorded, no timing call made
NoTimingCall == [call |-> "none"]

\* performance.py:143: the instance made at import
InitTiming ==
    /\ global_timing_stats = TimingStats_reset
    /\ now = 0
    /\ frames = <<>>
    /\ recorded = [o \in Operations |-> <<>>]
    /\ timing_last = NoTimingCall

-----------------------------------------------------------------------------
(* Query processors and retrieval strategies,                              *)
(* src/src/retrieval/query_processors.py, retrieval_strategies.py.         *)
(* A call runs in a world w: the external calls made so far, the global    *)
(* TimingStats instance and the clock; every external call takes env.dur.  *)

World(calls, ts, t) == [calls |-> calls, ts |-> ts, now |-> t]

Ret(v, w) == [ok |-> TRUE, val |-> v, w |-> w]
Exc(e, w) == [ok |-> FALSE, err |-> e, w |-> w]

\* an external call with outcome o, entered in w
External(o, call, w, dur) ==
    IF o.ok
    THEN Ret(o.val, [w EXCEPT !.calls = Append(@, call), !.now = @ + dur])
    ELSE Exc(o.err, [w EXCEPT !.calls = Append(@, call), !.now = @ + dur])

\* performance.py:129-133 and 93-94: stop_timer in the finally clause
Finally(r) == [r EXCEPT !.w.ts = stop_timer(@, r.w.now).self]

\* performance.py:97-139, timed(operation, stats_instance=global_timing_stats)
timed(operation, w, Body(_)) ==
    Finally(Body([w EXCEPT !.ts = start_timer(@, operation, w.now)]))

\* performance.py:81-94, global_timing_stats.measure(operation)
measure(operation, w, Body(_)) ==
    Finally(Body([w EXCEPT !.ts = start_timer(@, operation, w.now)]))

\* an output that does not parse yields the empty query
rewrite_query_parse_empty(result, original_query) ==
    IF result.parses THEN result.rewritten_query ELSE <<>>

\* query_processors.py:66-74: the parsed rewritten query, or the original
\* query when the parser raises
rewrite_query_parse(result, original_query) ==
    IF result.parses THEN result.rewritten_query ELSE original_query

\* query_processors.py:28-74, QueryProcessors.rewrite_query
rewrite_query(original_query, w, env) ==
    timed("query_rewrite", w, LAMBDA w1 :
        Then(External(env.rewrite, LLMCall("rewrite_llm", original_query), w1, env.dur),
             LAMBDA result :
        Ret(rewrite_query_parse(result.val, original_query), result.w)))

\* query_processors.py:116-124: the parsed sub-questions, or the original
\* query alone when the parser raises
decompose_query_parse(result, original_query) ==
    IF result.parses THEN result.subquestions ELSE << original_query >>

\* query_processors.py:78: the default of max_subquestions
MAX_SUBQUESTIONS == 3

\* query_processors.py:76-124, QueryProcessors.decompose_query:
\* max_subquestions goes into the prompt (97, 114) and nowhere else
decompose_query_max(original_query, max_subquestions, w, env) ==
    timed("query_decomposition", w, LAMBDA w1 :
        Then(External(env.decomp,
                      [op |-> "decomposition_llm", arg |-> original_query,
                       max_subquestions |-> max_subquestions],
                      w1, env.dur),
             LAMBDA result :
        Ret(decompose_query_parse(result.val, original_query), result.w)))

\* QueryProcessors.decompose_query(query, llm=self.llm), as the strategy
\* calls it (retrieval_strategies.py:94)
decompose_query(original_query, w, env) ==
    decompose_query_max(original_query, MAX_SUBQUESTIONS, w, env)

\* query_processors.py:126-152, QueryProcessors.generate_hypothetical_answer
generate_hypothetical_answer(query, w, env) ==
    timed("generate_hypothetical_answer", w, LAMBDA w1 :
        External(env.hyde, LLMCall("hyde_llm", query), w1, env.dur))

\* self.retriever.get_relevant_documents(query, k=k), the n-th retriever call
retriever_get_relevant_documents(q, k, n, w, env) ==
    External(env.retr[n], RetrieverCall(q, k), w, env.dur)

\* retrieval_strategies.py:48-57, BasicRetrievalStrategy.retrieve
BasicRetrievalStrategy_retrieve(query, k, w, env) ==
    timed("basic_retrieval", w, LAMBDA w1 :
        Then(retriever_get_relevant_documents(query, k, 1, w1, env), LAMBDA docs :
        Ret([documents |-> docs.val,
             metadata |-> [strategy |-> "basic", k |-> k, query |-> query]],
            docs.w)))

\* retrieval_strategies.py:66-82, QueryRewriteRetrievalStrategy.retrieve
QueryRewriteRetrievalStrategy_retrieve(query, k, w, env) ==
    timed("query_rewrite_retrieval", w, LAMBDA w1 :
        Then(rewrite_query(query, w1, env), LAMBDA rw :
        Then(retriever_get_relevant_documents(rw.val, k, 1, rw.w, env), LAMBDA docs :
        Ret([documents |-> docs.val,
             metadata |-> [strategy |-> "query_rewrite", k |-> k,
                           original_query |-> query, rewritten_query |-> rw.val]],
            docs.w))))

\* retrieval_strategies.py:100-107: the loop over the sub-questions, from the
\* i-th on; acc holds all_docs
RECURSIVE StrategySubquestions(_, _, _, _, _)
StrategySubquestions(subquestions, i, k, acc, env) ==
    IF i > Len(subquestions) THEN acc
    ELSE Then(rewrite_query(subquestions[i], acc.w, env), LAMBDA rw :
         Then(retriever_get_relevant_documents(
                  rw.val, Max(MIN_SUB_K, k \div Len(subquestions)), i, rw.w, env),
              LAMBDA docs :
         StrategySubquestions(subquestions, i + 1, k,
                              Ret(acc.val \o docs.val, docs.w), env)))

\* retrieval_strategies.py:91-127, QueryDecompositionStrategy.retrieve
QueryDecompositionStrategy_retrieve(query, k, w, env) ==
    timed("query_decomposition_retrieval", w, LAMBDA w1 :
        Then(decompose_query(query, w1, env), LAMBDA subq :
        Then(StrategySubquestions(subq.val, 1, k, Ret(<<>>, subq.w), env), LAMBDA all :
        Ret([documents |-> Take(Deduplicate(all.val, {}), k),
             metadata |-> [strategy |-> "decomposition", k |-> k,
                           original_query |-> query, subquestions |-> subq.val]],
            all.w))))

\* retrieval_strategies.py:151: the longest answer reported whole
HYDE_ANSWER_MAX == 300

\* the marker appended to a cut answer
ELLIPSIS == << ".", ".", "." >>

\* an answer of 300 characters is cut as well
truncate_from_300(hypothetical_answer) ==
    IF Len(hypothetical_answer) >= HYDE_ANSWER_MAX
    THEN SubSeq(hypothetical_answer, 1, HYDE_ANSWER_MAX) \o ELLIPSIS
    ELSE hypothetical_answer

\* retrieval_strategies.py:151-152: the metadata's hypothetical_answer
truncate(hypothetical_answer) ==
    IF Len(hypothetical_answer) > HYDE_ANSWER_MAX
    THEN SubSeq(hypothetical_answer, 1, HYDE_ANSWER_MAX) \o ELLIPSIS
    ELSE hypothetical_answer

\* retrieval_strategies.py:136-155, HyDERetrievalStrategy.retrieve
HyDERetrievalStrategy_retrieve(query, k, w, env) ==
    timed("hyde_retrieval", w, LAMBDA w1 :
        Then(measure("hyde_generate_answer", w1, LAMBDA w2 :
                 generate_hypothetical_answer(query, w2, env)), LAMBDA answer :
        Then(measure("hyde_retrieve_with_answer", answer.w, LAMBDA w3 :
                 retriever_get_relevant_documents(answer.val, k, 1, w3, env)), LAMBDA docs :
        Ret([documents |-> docs.val,
             metadata |-> [strategy |-> "hyde", k |-> k, original_query |-> query,
                           hypothetical_answer |-> truncate(answer.val)]],
            docs.w))))

\* the strategy classes of the module, and classes registered by a caller
SourceClasses == {"BasicRetrievalStrategy", "QueryRewriteRetrievalStrategy",
                  "QueryDecompositionStrategy", "HyDERetrievalStrategy"}
CallerClasses == {"CallerBasicStrategy", "CallerHyDEStrategy", "CallerStrategy"}
StrategyClasses == SourceClasses \cup CallerClasses

\* the class attribute name (retrieval_strategies.py:45, 63, 88, 133)
class_name(strategy_class) ==
    CASE strategy_class \in {"BasicRetrievalStrategy", "CallerBasicStrategy"} -> "basic"
      [] strategy_class = "QueryRewriteRetrievalStrategy" -> "query_rewrite"
      [] strategy_class = "QueryDecompositionStrategy" -> "decomposition"
      [] strategy_class \in {"HyDERetrievalStrategy", "CallerHyDEStrategy"} -> "hyde"
      [] OTHER -> "caller"

\* strategy.retrieve(query, k) of an instance of a class of the module
retrieve(strategy_class, query, k, w, env) ==
    CASE strategy_class = "BasicRetrievalStrategy" ->
             BasicRetrievalStrategy_retrieve(query, k, w, env)
      [] strategy_class = "QueryRewriteRetrievalStrategy" ->
             QueryRewriteRetrievalStrategy_retrieve(query, k, w, env)
      [] strategy_class = "QueryDecompositionStrategy" ->
             QueryDecompositionStrategy_retrieve(query, k, w, env)
      [] OTHER -> HyDERetrievalStrategy_retrieve(query, k, w, env)

\* a second registration under a name is ignored
register_keeps_first(registry, strategy_class) ==
    [n \in DOMAIN registry \cup {class_name(strategy_class)} |->
        IF n \in DOMAIN registry THEN registry[n] ELSE strategy_class]

\* retrieval_strategies.py:164-168, StrategyRegistry.register
register(registry, strategy_class) ==
    [n \in DOMAIN registry \cup {class_name(strategy_class)} |->
        IF n = class_name(strategy_class) THEN strategy_class ELSE registry[n]]

\* retrieval_strategies.py:162, 189-192: the registry after import
RegistryAtImport ==
    register(register(register(register(EmptyDict,
        "BasicRetrievalStrategy"), "QueryRewriteRetrievalStrategy"),
        "QueryDecompositionStrategy"), "HyDERetrievalStrategy")

\* retrieval_strategies.py:174: the prefix of the unknown-strategy message
MSG_UNKNOWN_STRATEGY == "unknown strategy: "

\* retrieval_strategies.py:19-22: the client made when no llm is passed
DEFAULT_LLM == "ChatOpenAI(gpt-4o-mini)"

\* retrieval_strategies.py:17-22, RetrievalStrategy.__init__
NewStrategy(strategy_class, retriever, llm) ==
    [class |-> strategy_class, retriever |-> retriever,
     llm |-> IF llm = "None" THEN DEFAULT_LLM ELSE llm]

\* retrieval_strategies.py:170-175, StrategyRegistry.get_strategy
get_strategy(registry, name, retriever, llm) ==
    IF name \notin DOMAIN registry
    THEN Raise([type |-> "ValueError", message |-> << MSG_UNKNOWN_STRATEGY, name >>])
    ELSE Ok(NewStrategy(registry[name], retriever, llm))

NotCalled == [called |-> FALSE]
NoInput == [called |-> FALSE]

\* retrieval_strategies.py:189-192: the register calls made at import
ImportRegistrations ==
    << "BasicRetrievalStrategy", "QueryRewriteRetrievalStrategy",
       "QueryDecompositionStrategy", "HyDERetrievalStrategy" >>

\* the library as imported, nothing called
InitLibrary ==
    /\ strategies = RegistryAtImport
    /\ registered = ImportRegistrations
    /\ lib_in = NoInput
    /\ lib_out = NotCalled

-----------------------------------------------------------------------------
(* Conversational RAG Model, src/src/llm/models.py *)

HumanMessage(content) == [type |-> "human", content |-> content]
AIMessage(content) == [type |-> "ai", content |-> content]

\* the question is taken as it is, whatever the memory holds
get_standalone_question_no_history(chat_history, question, calls, env) ==
    Returned(question, calls)

\* models.py:104-112 and 142-162: env.reform is the completion of the
\* standalone chain, called only when the memory holds messages
get_standalone_question(chat_history, question, calls, env) ==
    IF Len(chat_history) > 0
    THEN Out(env.reform,
             calls \o << [op |-> "standalone_llm", question |-> question,
                          chat_history |-> chat_history, out |-> env.reform] >>)
    ELSE Returned(question, calls)

\* the standalone question is passed on instead of the original one
combine_input_standalone(docs, question, standalone_question) ==
    [input_documents |-> docs, question |-> standalone_question]

\* models.py:119-122: what the answer-combination stage is invoked with
combine_input(docs, question, standalone_question) ==
    [input_documents |-> docs, question |-> question]

\* qa_chain.combine_docs_chain.invoke (models.py:119), also the second stage
\* of the standard chain: env.combine is the LLM's answer
combine_docs(input, calls, env) ==
    Out(env.combine,
        calls \o << [op |-> "combine_llm", question |-> input.question,
                     input_documents |-> input.input_documents,
                     out |-> env.combine] >>)

\* the assistant message is not added
update_history_human_only(messages, question, answer) ==
    messages \o << HumanMessage(question) >>

\* models.py:133-135: add_user_message(question), add_ai_message(answer)
update_history(messages, question, answer) ==
    messages \o << HumanMessage(question), AIMessage(answer) >>

\* What a call of RAGModel.query leaves behind: the returned dict or the
\* raised error, the two fields of the model it may assign, the calls made
QueryReturned(val, mem, meta, calls) ==
    [ok |-> TRUE, val |-> val, memory |-> mem,
     last_retrieval_metadata |-> meta, calls |-> calls]

\* a query that raises resets the metadata of the last retrieval
QueryRaised_resets_metadata(failure, mem, meta) ==
    [ok |-> FALSE, err |-> failure.err, memory |-> mem,
     last_retrieval_metadata |-> EmptyDict, calls |-> failure.calls]

QueryRaised(failure, mem, meta) ==
    [ok |-> FALSE, err |-> failure.err, memory |-> mem,
     last_retrieval_metadata |-> meta, calls |-> failure.calls]

\* models.py:85-100: ConversationalRetrievalChain.invoke, the standard path:
\* condense with the history, retrieve, combine, save the turn to the memory
qa_chain_invoke(self, question, calls, env) ==
    Try(IF Len(self.memory) > 0
        THEN Out(env.reform,
                 calls \o << [op |-> "condense_llm", question |-> question,
                              chat_history |-> self.memory, out |-> env.reform] >>)
        ELSE Returned(question, calls),
        LAMBDA cq :
    Try(get_relevant_documents(cq.val, K_DEFAULT, 1, cq.calls, env), LAMBDA docs :
    Try(combine_docs(combine_input(docs.val, cq.val, cq.val), docs.calls, env),
        LAMBDA result :
            QueryReturned([question |-> question,
                           answer |-> result.val,
                           source_documents |-> docs.val],
                          update_history(self.memory, question, result.val),
                          self.last_retrieval_metadata,
                          result.calls),
        LAMBDA f : QueryRaised(f, self.memory, self.last_retrieval_metadata)),
        LAMBDA f : QueryRaised(f, self.memory, self.last_retrieval_metadata)),
        LAMBDA f : QueryRaised(f, self.memory, self.last_retrieval_metadata))

\* the call of adaptive_retrieval, entered in the calls with its argument and
\* its outcome
EnterCall(ar, query) ==
    IF ar.ok
    THEN Returned(ar.val, ar.calls \o << [op |-> "adaptive_retrieval", query |-> query,
                                          out |-> Ok(ar.val)] >>)
    ELSE Raised(ar.err, ar.calls \o << [op |-> "adaptive_retrieval", query |-> query,
                                        out |-> Raise(ar.err)] >>)

\* models.py:102-140, the advanced path
query_advanced(self, question, calls, env) ==
    \* models.py:104-112
    Try(get_standalone_question(self.memory, question, calls, env),
        LAMBDA standalone_question :
    \* models.py:115-116
    Try(EnterCall(adaptive_retrieval(TRUE, standalone_question.val, K_DEFAULT,
                                     standalone_question.calls, env),
                  standalone_question.val),
        LAMBDA ar :
    \* models.py:119-122
    Try(combine_docs(combine_input(ar.val.documents, question, standalone_question.val),
                     ar.calls, env),
        LAMBDA result :
    \* models.py:125-140
            QueryReturned([question |-> question,
                           answer |-> result.val,
                           source_documents |-> IF self.return_source_documents
                                                THEN ar.val.documents ELSE <<>>,
                           retrieval_metadata |-> ar.val.metadata],
                          update_history(self.memory, question, result.val),
                          ar.val.metadata,
                          result.calls),
        LAMBDA f : QueryRaised(f, self.memory, ar.val.metadata)),
        LAMBDA f : QueryRaised(f, self.memory, self.last_retrieval_metadata)),
        LAMBDA f : QueryRaised(f, self.memory, self.last_retrieval_metadata))

\* models.py:96-140, RAGModel.query
RAGModel_query(self, question, calls, env) ==
    IF ~self.use_advanced_rag THEN qa_chain_invoke(self, question, calls, env)
    ELSE query_advanced(self, question, calls, env)

\* the metadata of the last retrieval is kept
clear_history_keeps_metadata(self) ==
    [self EXCEPT !.memory = <<>>]

\* models.py:164-167, RAGModel.clear_history
clear_history(self) ==
    [self EXCEPT !.memory = <<>>, !.last_retrieval_metadata = EmptyDict]

\* models.py:18-61, RAGModel(retriever=...) as the server constructs it
NewRAGModel ==
    [use_advanced_rag |-> TRUE,
     return_source_documents |-> TRUE,
     memory |-> <<>>,
     last_retrieval_metadata |-> EmptyDict]

-----------------------------------------------------------------------------
(* API server, src/src/api/server.py *)

\* texts of the responses (server.py:107, 118, 143)
MSG_NOT_INITIALIZED == "model not initialized"
MSG_EMPTY_QUESTION == "query question cannot be empty"
MSG_QUERY_ERROR == "query processing error: "

\* server.py:86-89: QueryRequest declares question and clear_history only; a
\* field of the JSON body it does not declare is dropped by the validation
QueryRequest(body) ==
    [question |-> body.question, clear_history |-> body.clear_history]

HTTPException(status_code, detail) == [status |-> status_code, detail |-> detail]

\* server.py:92-97: ResponseItem
ResponseItem(answer, source_documents) ==
    [status |-> 200, answer |-> answer, source_documents |-> source_documents]

\* server.py:128-135
FormatSourceDocs(docs) ==
    [i \in 1..Len(docs) |->
        [page_content |-> docs[i].page_content, metadata |-> docs[i].metadata]]

\* the question is compared without strip()
is_empty_question_unstripped(question) == question = <<>>

\* server.py:115: not request.question.strip()
is_empty_question(question) == strip(question) = <<>>

\* the error text is returned as a normal answer
query_error_response_as_answer(err) == ResponseItem(err, <<>>)

\* server.py:142-146: the error of a failed query becomes a 500
query_error_response(err) == HTTPException(500, <<MSG_QUERY_ERROR, err>>)

\* what the handler leaves behind: the response, the global rag_model and the
\* instance it holds, the calls made
Handled(resp, model, self, calls) ==
    [response |-> resp, rag_model |-> model, self |-> self, calls |-> calls]

\* server.py:122-146: the response to the outcome of rag_model.query
Respond(model, self, out) ==
    Handled(IF out.ok
            THEN ResponseItem(out.val.answer, FormatSourceDocs(out.val.source_documents))
            ELSE query_error_response(out.err),
            model,
            [self EXCEPT !.memory = out.memory,
                         !.last_retrieval_metadata = out.last_retrieval_metadata],
            out.calls)

\* server.py:109-112: a call of clear_history is entered in the calls with
\* the number of messages it dropped
ClearIfAsked(req, self) ==
    IF req.clear_history
    THEN [self |-> clear_history(self),
          calls |-> << [op |-> "clear_history", dropped |-> Len(self.memory)] >>]
    ELSE [self |-> self, calls |-> <<>>]

\* server.py:114-146
AnswerQuestion(model, req, cleared, env) ==
    IF is_empty_question(req.question)
    THEN Handled(ResponseItem(MSG_EMPTY_QUESTION, <<>>), model, cleared.self, cleared.calls)
    ELSE Respond(model, cleared.self,
                 RAGModel_query(cleared.self, req.question, cleared.calls, env))

\* server.py:100-146, the /query handler run on the globals (model, self)
query(model, self, body, env) ==
    IF model = "None"
    THEN Handled(HTTPException(500, <<MSG_NOT_INITIALIZED>>), model, self, <<>>)
    ELSE AnswerQuestion(model, QueryRequest(body),
                        ClearIfAsked(QueryRequest(body), self), env)

-----------------------------------------------------------------------------
(* Chat Console, src/app/app.py *)

\* the browser sessions of the console, each a client of the one server
Clients == {"c1", "c2"}

\* texts of the console (app.py:64 and app.py:135-138)
MSG_NO_ANSWER == "sorry, I cannot process your request"
MSG_API_FAILURE == "sorry, an error occurred while processing your request"

\* Python's None
PyNone == [py |-> "None"]

\* nothing in flight between a session and the server
NoMessage == [kind |-> "none"]

\* app.py:23-30: the JSON body query_api posts to /query
RequestBody(question, clear, advanced) ==
    [question |-> question, clear_history |-> clear, advanced_rag |-> advanced]

\* the JSON object of a response of the server: the ResponseItem of a 200
\* (server.py:92-97, 117-120, 138-141), the detail of an HTTPException
\* (server.py:107, 146)
response_json(resp) ==
    IF resp.status = 200
    THEN [answer |-> resp.answer, source_documents |-> resp.source_documents]
    ELSE [detail |-> resp.detail]

\* app.py:20-34, query_api: the JSON of the response that arrives, None when
\* requests.post or response.json() raises
query_api(arrival) ==
    IF arrival.kind = "reply" THEN response_json(arrival.response) ELSE PyNone

\* app.py:62, the truth value of what query_api returned: None and an empty
\* dict are false
is_truthy(r) == r # PyNone /\ r # EmptyDict

\* dict.get(key, default)
dict_get(d, key, default) == IF key \in DOMAIN d THEN d[key] ELSE default

\* app.py:52
UserMessage(question) == [role |-> "user", content |-> question]

\* app.py:64 and 128-133: the assistant's turn for a response
AnswerMessage(r) ==
    [role |-> "assistant",
     content |-> dict_get(r, "answer", MSG_NO_ANSWER),
     source_documents |-> dict_get(r, "source_documents", <<>>),
     retrieval_metadata |-> dict_get(r, "retrieval_metadata", EmptyDict)]

\* app.py:135-139: the assistant's turn when there is no response
FailureMessage == [role |-> "assistant", content |-> MSG_API_FAILURE]

\* nothing is recorded when there is no response
handle_response_silent(msgs, r) ==
    IF is_truthy(r) THEN Append(msgs, AnswerMessage(r)) ELSE msgs

\* app.py:62-139: the message list after handle_question_submission has the
\* return value r of query_api
handle_response(msgs, r) ==
    IF is_truthy(r) THEN Append(msgs, AnswerMessage(r))
    ELSE Append(msgs, FailureMessage)

\* app.py:41-42 and 150-151: the session state of a new browser session
NewSession == [messages |-> <<>>, use_advanced_rag |-> TRUE]

InitConsole ==
    /\ session_state = [c \in Clients |-> NewSession]
    /\ console_pc = [c \in Clients |-> "idle"]
    /\ net = [c \in Clients |-> NoMessage]
    /\ turns = <<>>

-----------------------------------------------------------------------------
(* Outcomes of the external calls *)

LLM_ERROR == "LLMError"
RETRIEVER_ERROR == "RetrieverError"

\* the i-th sub-question of a decomposition
Subquestion(i) == [j \in 1..i |-> "s"]
SubqList(n) == [i \in 1..n |-> Subquestion(i)]

AnalysisOutcomes == {Raise(LLM_ERROR)} \cup { Ok(t) : t \in AnalysisTexts }

RewriteOutcomes ==
    { Raise(LLM_ERROR),
      Ok([parses |-> FALSE]),
      Ok([parses |-> TRUE, rewritten_query |-> <<"w">>]) }

DecompOutcomes ==
    { Raise(LLM_ERROR), Ok([parses |-> FALSE]) }
    \cup { Ok([parses |-> TRUE, subquestions |-> SubqList(n)]) : n \in 0..MaxSubq }

DocLists == { <<D1>>, <<D2, D3>> }

RetrOutcomes == {Raise(RETRIEVER_ERROR)} \cup { Ok(l) : l \in DocLists }

ReformOutcomes == { Raise(LLM_ERROR), Ok(<<"r">>) }

Answers == {"answer1", "answer2"}

CombineOutcomes == {Raise(LLM_ERROR)} \cup { Ok(a) : a \in Answers }

RetrAll(o) == [i \in 1..MaxSubq |-> o]

Text(head, syntax, complexity, name, tail) ==
    [head |-> head,
     body |-> [syntax |-> syntax, complexity |-> complexity, recommended_strategy |-> name],
     tail |-> tail]

\* the retrieval outcomes a request to the server is run against
RetrievalScenarios ==
    { \* a simple query, answered by the basic branch
      [analysis |-> Ok(Text(FENCE_OPEN, "json_bool", "simple", "basic", FENCE_CLOSE)),
       rewrite |-> Ok([parses |-> FALSE]),
       decomp |-> Ok([parses |-> FALSE]),
       retr |-> RetrAll(Ok(<<D1>>))],
      \* the prompt's hybrid strategy, the rewrite parses
      [analysis |-> Ok(Text("", "py_bool", "medium", "hybrid", "")),
       rewrite |-> Ok([parses |-> TRUE, rewritten_query |-> <<"w">>]),
       decomp |-> Ok([parses |-> FALSE]),
       retr |-> RetrAll(Ok(<<D2, D3>>))],
      \* a decomposition into MaxSubq sub-questions
      [analysis |-> Ok(Text(FENCE_OPEN, "json_bool", "complex", "decomposition", FENCE_CLOSE)),
       rewrite |-> Ok([parses |-> FALSE]),
       decomp |-> Ok([parses |-> TRUE, subquestions |-> SubqList(MaxSubq)]),
       retr |-> [i \in 1..MaxSubq |-> IF i = 1 THEN Ok(<<D1>>) ELSE Ok(<<D2, D3>>)]],
      \* the JSON the prompt asks for, without a fence
      [analysis |-> Ok(Text("", "json_bool", "medium", "basic", "")),
       rewrite |-> Ok([parses |-> FALSE]),
       decomp |-> Ok([parses |-> FALSE]),
       retr |-> RetrAll(Ok(<<D1>>))],
      \* the retriever fails
      [analysis |-> Ok(Text(FENCE_OPEN, "json_bool", "simple", "basic", FENCE_CLOSE)),
       rewrite |-> Ok([parses |-> FALSE]),
       decomp |-> Ok([parses |-> FALSE]),
       retr |-> RetrAll(Raise(RETRIEVER_ERROR))] }

\* the outcomes of all external calls of one request; the answer stage is
\* reached only when the retrieval returns
ServerEnvs ==
    { e \in { [reform |-> rf, analysis |-> sc.analysis, rewrite |-> sc.rewrite,
               decomp |-> sc.decomp, retr |-> sc.retr, combine |-> cb] :
                 sc \in RetrievalScenarios, rf \in ReformOutcomes, cb \in CombineOutcomes } :
        adaptive_retrieval(TRUE, <<"a">>, K_DEFAULT, <<>>, e).ok
            \/ e.combine = Raise(LLM_ERROR) }

\* JSON bodies a client posts to /query (app.py:25-29 sends all three fields)
RequestBodies ==
    [question : Questions, clear_history : BOOLEAN, advanced_rag : BOOLEAN]

-----------------------------------------------------------------------------
(* State machine of the server process *)

NoRequest == [question |-> <<>>, clear_history |-> FALSE, advanced_rag |-> TRUE]
NoResponse == [status |-> 0]

\* the RAGModel instance held by the global rag_model
Self ==
    [use_advanced_rag |-> use_advanced_rag,
     return_source_documents |-> TRUE,
     memory |-> memory,
     last_retrieval_metadata |-> last_retrieval_metadata]

\* server.py:27-29: the module's globals before startup
InitServer ==
    /\ serverState = "starting"
    /\ vector_store = "None"
    /\ rag_model = "None"
    /\ use_advanced_rag = NewRAGModel.use_advanced_rag
    /\ memory = <<>>
    /\ last_retrieval_metadata = EmptyDict
    /\ request = NoRequest
    /\ response = NoResponse
    /\ trace = <<>>

Init ==
    /\ InitServer
    /\ InitConsole
    /\ ar_in = NoInput
    /\ ar_out = NotCalled
    /\ InitTiming
    /\ InitLibrary

\* server.py:32-68: startup; the step that fails, if any, re-raises and the
\* server never starts serving
LifespanOutcomes == {"ok", "vector_store_fails", "retriever_fails", "rag_model_fails"}

\* the initialization error is logged and swallowed
lifespan_state_swallows(outcome) == "running"

\* server.py:59-64: an initialization error is logged and raised again, which
\* aborts the startup; otherwise the application starts serving
lifespan_state(outcome) == IF outcome = "ok" THEN "running" ELSE "aborted"

Lifespan ==
    /\ serverState = "starting"
    /\ \E outcome \in LifespanOutcomes :
         /\ vector_store' = IF outcome = "vector_store_fails" THEN "None" ELSE "VectorStore"
         /\ rag_model' = IF outcome = "ok" THEN "RAGModel" ELSE "None"
         /\ serverState' = lifespan_state(outcome)
         /\ use_advanced_rag' = NewRAGModel.use_advanced_rag
         /\ memory' = NewRAGModel.memory
         /\ last_retrieval_metadata' = NewRAGModel.last_retrieval_metadata
    /\ UNCHANGED <<consoleVars, request, response, trace, ar_in, ar_out, timingVars, libVars>>

\* the globals and the observed request, response and calls after a request
Serve(body, h) ==
    /\ Len(h.self.memory) <= 2 * MaxTurns
    /\ request' = body
    /\ response' = h.response
    /\ trace' = h.calls
    /\ rag_model' = h.rag_model
    /\ use_advanced_rag' = h.self.use_advanced_rag
    /\ memory' = h.self.memory
    /\ last_retrieval_metadata' = h.self.last_retrieval_metadata

\* server.py:100-146: one /query request, handled without yielding
Query ==
    /\ serverState = "running"
    /\ \E body \in RequestBodies, env \in ServerEnvs :
         Serve(body, query(rag_model, Self, body, env))
    /\ UNCHANGED <<consoleVars, serverState, vector_store, ar_in, ar_out, timingVars, libVars>>

\* server.py:65-68: shutdown
Shutdown ==
    /\ serverState = "running"
    /\ serverState' = "stopped"
    /\ UNCHANGED <<consoleVars, vector_store, rag_model, use_advanced_rag, memory,
                   last_retrieval_metadata, request, response, trace, ar_in, ar_out,
                   timingVars, libVars>>

Next == Lifespan \/ Query \/ Shutdown

Spec == Init /\ [][Next]_vars

-----------------------------------------------------------------------------
(* The console sessions and the server: a session's action sends a request *)
(* and waits; the server handles the requests that arrived one at a time   *)

MaxConsoleTurns == 2    \* questions on the sessions' lists before submitting stops

\* what a user submits: the text of st.chat_input (app.py:230) or the question
\* of an example button (app.py:163-174)
ConsoleQuestions == { <<"a">> }

\* the outcomes of the external calls the console's requests are run against
ConsoleEnvs ==
    { e \in ServerEnvs :
        /\ e.analysis = Ok(Text(FENCE_OPEN, "json_bool", "simple", "basic", FENCE_CLOSE))
        /\ e.combine # Ok("answer2") }

RECURSIVE TotalMessages(_)
TotalMessages(S) ==
    IF S = {} THEN 0
    ELSE LET c == CHOOSE x \in S : TRUE
         IN Len(session_state[c].messages) + TotalMessages(S \ {c})

\* the turn a handled request adds to the server's history, if any
RecordTurn(c, body, resp) ==
    (IF body.clear_history THEN <<>> ELSE turns)
    \o (IF resp.status = 200 /\ ~is_empty_question(body.question)
        THEN << [client |-> c, question |-> body.question, answer |-> resp.answer] >>
        ELSE <<>>)

\* app.py:230-232 and 171-174, then 46-60: a question is submitted; the user
\* message is appended and the request is sent
SubmitQuestion ==
    \E c \in Clients, question \in ConsoleQuestions :
        /\ console_pc[c] = "idle"
        /\ TotalMessages(Clients) + 2 <= 2 * MaxConsoleTurns
        /\ session_state' =
               [session_state EXCEPT ![c].messages = Append(@, UserMessage(question))]
        /\ console_pc' = [console_pc EXCEPT ![c] = "submit"]
        /\ net' = [net EXCEPT ![c] =
                      [kind |-> "request",
                       body |-> RequestBody(question, FALSE,
                                            session_state[c].use_advanced_rag)]]
        /\ UNCHANGED <<serverVars, ar_in, ar_out, timingVars, libVars, turns>>

\* app.py:155-158: the clear button empties the local list and sends the
\* clear request (advanced_rag keeps its default)
ClearHistory ==
    \E c \in Clients :
        /\ console_pc[c] = "idle"
        /\ session_state' = [session_state EXCEPT ![c].messages = <<>>]
        /\ console_pc' = [console_pc EXCEPT ![c] = "clear"]
        /\ net' = [net EXCEPT ![c] =
                      [kind |-> "request", body |-> RequestBody(<<>>, TRUE, TRUE)]]
        /\ UNCHANGED <<serverVars, ar_in, ar_out, timingVars, libVars, turns>>

\* app.py:153: the checkbox of the sidebar
ToggleAdvancedRag ==
    \E c \in Clients :
        /\ console_pc[c] = "idle"
        /\ session_state' = [session_state EXCEPT ![c].use_advanced_rag = ~@]
        /\ UNCHANGED <<serverVars, ar_in, ar_out, timingVars, libVars,
                       console_pc, net, turns>>

\* server.py:100-146: the server handles one request that arrived, without
\* yielding, and sends its response
HandleRequest ==
    /\ serverState = "running"
    /\ \E c \in Clients, env \in ConsoleEnvs :
         /\ net[c].kind = "request"
         /\ Serve(net[c].body, query(rag_model, Self, net[c].body, env))
         /\ net' = [net EXCEPT ![c] = [kind |-> "reply", response |-> response']]
         /\ turns' = RecordTurn(c, net[c].body, response')
    /\ UNCHANGED <<serverState, vector_store, ar_in, ar_out, timingVars, libVars,
                   session_state, console_pc>>

\* the request does not reach the server, or its response does not reach the
\* session: requests.post raises (app.py:23-30)
NetworkError ==
    \E c \in Clients :
        /\ net[c].kind \in {"request", "reply"}
        /\ net' = [net EXCEPT ![c] = [kind |-> "error"]]
        /\ UNCHANGED <<serverVars, ar_in, ar_out, timingVars, libVars,
                       session_state, console_pc, turns>>

\* app.py:60-142: query_api returns and the assistant's turn is recorded
CompleteSubmit ==
    \E c \in Clients :
        /\ console_pc[c] = "submit"
        /\ net[c].kind \in {"reply", "error"}
        /\ session_state' =
               [session_state EXCEPT ![c].messages = handle_response(@, query_api(net[c]))]
        /\ console_pc' = [console_pc EXCEPT ![c] = "idle"]
        /\ net' = [net EXCEPT ![c] = NoMessage]
        /\ UNCHANGED <<serverVars, ar_in, ar_out, timingVars, libVars, turns>>

\* app.py:158-159: query_api returns and the clear action is complete
CompleteClear ==
    \E c \in Clients :
        /\ console_pc[c] = "clear"
        /\ net[c].kind \in {"reply", "error"}
        /\ console_pc' = [console_pc EXCEPT ![c] = "idle"]
        /\ net' = [net EXCEPT ![c] = NoMessage]
        /\ UNCHANGED <<serverVars, ar_in, ar_out, timingVars, libVars,
                       session_state, turns>>

NextConsole ==
    \/ Lifespan
    \/ SubmitQuestion
    \/ ClearHistory
    \/ ToggleAdvancedRag
    \/ HandleRequest
    \/ NetworkError
    \/ CompleteSubmit
    \/ CompleteClear
    \/ Shutdown

SpecConsole == Init /\ [][NextConsole]_vars

-----------------------------------------------------------------------------
(* adaptive_retrieval on its own: every analysis output, every outcome of  *)
(* the rewrite, the decomposition and the retriever                        *)

Ks == {1, K_DEFAULT}

RetrievalEnvs ==
    [analysis : AnalysisOutcomes, rewrite : RewriteOutcomes,
     decomp : DecompOutcomes, retr : [1..MaxSubq -> RetrOutcomes]]

RetrievalInputs ==
    [called : {TRUE}, base_retriever_bound : {TRUE}, query : {<<"a">>},
     k : Ks, env : RetrievalEnvs]
    \cup
    [called : {TRUE}, base_retriever_bound : {FALSE}, query : {<<"a">>},
     k : {K_DEFAULT},
     env : {[sc \in RetrievalScenarios |-> sc][CHOOSE sc \in RetrievalScenarios : TRUE]}]

InitRetrieval ==
    /\ InitServer
    /\ InitConsole
    /\ ar_in \in RetrievalInputs
    /\ ar_out = NotCalled
    /\ InitTiming
    /\ InitLibrary

CallAdaptiveRetrieval ==
    /\ ~ar_out.called
    /\ ar_in.called
    /\ ar_out' = [called |-> TRUE,
                  result |-> adaptive_retrieval(ar_in.base_retriever_bound, ar_in.query,
                                                ar_in.k, <<>>, ar_in.env)]
    /\ UNCHANGED <<consoleVars, serverVars, ar_in, timingVars, libVars>>

NextRetrieval == CallAdaptiveRetrieval

SpecRetrieval == InitRetrieval /\ [][NextRetrieval]_vars

-----------------------------------------------------------------------------
(* The TimingStats instance on its own: direct start_timer and stop_timer  *)
(* calls, measure blocks and timed calls, nested in any way, while the     *)
(* clock advances                                                          *)

MaxClock == 2       \* last reading of the clock
MaxDepth == 2       \* measure/timed blocks entered at once
MaxFolds == 2       \* timers stopped and folded into the statistics

\* the innermost block entered and not yet left
Top == frames[Len(frames)]

TotalFolds == Len(recorded["op1"]) + Len(recorded["op2"])

\* stop_timer may be called: it folds nothing, or the bound allows one more
CanStop == NoActiveTimer(global_timing_stats) \/ TotalFolds < MaxFolds

\* the history after a stop_timer call at this moment
RecordStop ==
    IF NoActiveTimer(global_timing_stats) THEN recorded
    ELSE [recorded EXCEPT ![global_timing_stats.current_operation] =
                 Append(@, now - global_timing_stats.start_time.t)]

\* a block just entered; undisturbed says that no start_timer or stop_timer
\* call has been made on the instance since (history)
Frame(kind, operation, stats_instance) ==
    [kind |-> kind, operation |-> operation, stats_instance |-> stats_instance,
     undisturbed |-> TRUE]

\* the blocks entered, after a start_timer or stop_timer call on the instance
Disturbed(fs) == [i \in 1..Len(fs) |-> [fs[i] EXCEPT !.undisturbed = FALSE]]

\* the blocks left after the innermost one is left
Outer == SubSeq(frames, 1, Len(frames) - 1)

\* performance.py:121-124: the timed wrapper before the wrapped call
timed_enter(self, stats_instance, operation, t) ==
    IF stats_instance THEN start_timer(self, operation, t) ELSE self

InitTimingSpec ==
    /\ InitServer
    /\ InitConsole
    /\ ar_in = NoInput
    /\ ar_out = NotCalled
    /\ InitTiming
    /\ InitLibrary

\* time passes
Tick ==
    /\ now < MaxClock
    /\ now' = now + 1
    /\ UNCHANGED <<consoleVars, serverVars, ar_in, ar_out, libVars,
                   global_timing_stats, frames, recorded, timing_last>>

\* stats.start_timer(operation), called directly
StartTimer ==
    /\ \E operation \in Operations :
         /\ global_timing_stats' = start_timer(global_timing_stats, operation, now)
         /\ timing_last' = [call |-> "start_timer", operation |-> operation,
                            replaced |-> global_timing_stats.current_operation]
    /\ frames' = Disturbed(frames)
    /\ UNCHANGED <<consoleVars, serverVars, ar_in, ar_out, libVars, now, recorded>>

\* stats.stop_timer(), called directly
StopTimer ==
    /\ CanStop
    /\ global_timing_stats' = stop_timer(global_timing_stats, now).self
    /\ timing_last' = [call |-> "stop_timer", ret |-> stop_timer(global_timing_stats, now).ret]
    /\ recorded' = RecordStop
    /\ frames' = Disturbed(frames)
    /\ UNCHANGED <<consoleVars, serverVars, ar_in, ar_out, libVars, now>>

\* performance.py:90: with stats.measure(operation) is entered
MeasureEnter ==
    /\ Len(frames) < MaxDepth
    /\ \E operation \in Operations :
         /\ global_timing_stats' = start_timer(global_timing_stats, operation, now)
         /\ frames' = Append(Disturbed(frames), Frame("measure", operation, TRUE))
         /\ timing_last' = [call |-> "measure_enter"]
    /\ UNCHANGED <<consoleVars, serverVars, ar_in, ar_out, libVars, now, recorded>>

\* performance.py:91-94: the block of the innermost measure returns or raises
MeasureExit ==
    /\ frames # <<>>
    /\ Top.kind = "measure"
    /\ CanStop
    /\ \E raised \in BOOLEAN :
         /\ global_timing_stats' = measure_exit(global_timing_stats, now, raised)
         /\ timing_last' = [call |-> "measure", raised |-> raised]
    /\ frames' = Disturbed(Outer)
    /\ recorded' = RecordStop
    /\ UNCHANGED <<consoleVars, serverVars, ar_in, ar_out, libVars, now>>

\* performance.py:116-124: a function wrapped by timed is called
TimedEnter ==
    /\ Len(frames) < MaxDepth
    /\ \E operation \in Operations, stats_instance \in BOOLEAN :
         /\ global_timing_stats' =
                timed_enter(global_timing_stats, stats_instance, operation, now)
         /\ frames' = Append(IF stats_instance THEN Disturbed(frames) ELSE frames,
                              Frame("timed", operation, stats_instance))
         /\ timing_last' = [call |-> "timed_enter"]
    /\ UNCHANGED <<consoleVars, serverVars, ar_in, ar_out, libVars, now, recorded>>

\* performance.py:126-135: the wrapped function returns or raises
TimedExit ==
    /\ frames # <<>>
    /\ Top.kind = "timed"
    /\ Top.stats_instance => CanStop
    /\ \E raised \in BOOLEAN :
         /\ global_timing_stats' =
                timed_exit(global_timing_stats, Top.stats_instance, now, raised)
         /\ timing_last' = [call |-> "timed", raised |-> raised]
    /\ frames' = IF Top.stats_instance THEN Disturbed(Outer) ELSE Outer
    /\ recorded' = IF Top.stats_instance THEN RecordStop ELSE recorded
    /\ UNCHANGED <<consoleVars, serverVars, ar_in, ar_out, libVars, now>>

\* stats.get_stats(), called directly (performance.py:54-65): it returns
\* copies, an entry per operation of the statistics, and assigns nothing
GetStats ==
    /\ DOMAIN get_stats(global_timing_stats) = DOMAIN global_timing_stats.stats
    /\ UNCHANGED vars

NextTiming ==
    \/ Tick \/ StartTimer \/ StopTimer \/ MeasureEnter \/ MeasureExit
    \/ TimedEnter \/ TimedExit \/ GetStats

SpecTiming == InitTimingSpec /\ [][NextTiming]_vars

-----------------------------------------------------------------------------
(* The Strategy Registry on its own: classes are registered and strategies *)
(* are requested by name, in any order                                     *)

MaxRegistrations == 2   \* register calls made after import

\* the names a caller asks for
RequestedNames == {"basic", "query_rewrite", "decomposition", "hyde", "caller",
                   "hybrid", "not_a_real_strategy"}

\* the llm argument of get_strategy: omitted, or a client
LLMArguments == {"None", "llm"}

InitRegistrySpec ==
    /\ InitServer
    /\ InitConsole
    /\ ar_in = NoInput
    /\ ar_out = NotCalled
    /\ InitTiming
    /\ InitLibrary

\* StrategyRegistry.register(strategy_class), which returns the class
Register ==
    /\ Len(registered) < Len(ImportRegistrations) + MaxRegistrations
    /\ \E strategy_class \in StrategyClasses :
         /\ strategies' = register(strategies, strategy_class)
         /\ registered' = Append(registered, strategy_class)
         /\ lib_in' = [called |-> TRUE, op |-> "register",
                       strategy_class |-> strategy_class]
         /\ lib_out' = [called |-> TRUE, result |-> Ok(strategy_class)]
    /\ UNCHANGED <<consoleVars, serverVars, ar_in, ar_out, timingVars>>

\* StrategyRegistry.get_strategy(name, retriever, llm)
GetStrategy ==
    /\ \E name \in RequestedNames, llm \in LLMArguments :
         /\ lib_in' = [called |-> TRUE, op |-> "get_strategy", name |-> name,
                       retriever |-> "retriever", llm |-> llm]
         /\ lib_out' = [called |-> TRUE,
                        result |-> get_strategy(strategies, name, "retriever", llm)]
    /\ UNCHANGED <<consoleVars, serverVars, ar_in, ar_out, timingVars, strategies, registered>>

NextRegistry == Register \/ GetStrategy

SpecRegistry == InitRegistrySpec /\ [][NextRegistry]_vars

-----------------------------------------------------------------------------
(* The query processors and the strategies on their own: one call, on      *)
(* every outcome of the LLM and of the retriever                           *)

\* the characters of a hypothetical answer, and the answer of n characters
Char(i) == << "a", "b", "c", "d", "e", "f", "g" >>[(i % 7) + 1]
Answer(n) == [i \in 1..n |-> Char(i)]

\* answer lengths around the limit of retrieval_strategies.py:151
HydeLens == {0, 1, HYDE_ANSWER_MAX - 1, HYDE_ANSWER_MAX, HYDE_ANSWER_MAX + 1,
             HYDE_ANSWER_MAX + 3}

HydeOutcomes == {Raise(LLM_ERROR)} \cup { Ok(Answer(n)) : n \in HydeLens }

\* seconds an external call takes
Durations == {0, 1}

\* the k of a retrieve call
StrategyKs == {0, 1, 2, K_DEFAULT}

StrategyEnvs(RW, DC, RT, HY) ==
    [rewrite : RW, decomp : DC, retr : RT, hyde : HY, dur : Durations]

NoRewrite == {Ok([parses |-> FALSE])}
NoDecomp == {Ok([parses |-> FALSE])}
OneRetrieval == {RetrAll(Ok(<<D1>>))}
FirstRetrievals == { RetrAll(o) : o \in RetrOutcomes }
AllRetrievals == [1..MaxSubq -> RetrOutcomes]
NoHyde == {Ok(Answer(1))}

\* the analysis that selects the decomposition branch
DecompositionAnalysis ==
    [DefaultAnalysis EXCEPT !.complexity = "complex",
                            !.recommended_strategy = "decomposition"]

\* the max_subquestions a caller of decompose_query passes
MaxSubquestionsArgs == 1..MAX_SUBQUESTIONS

LibraryCall(op, strategy_class, Kset, Eset) ==
    [called : {TRUE}, op : {op}, strategy_class : strategy_class,
     query : {<<"a">>}, k : Kset,
     max_subquestions : IF op = "decompose_query" THEN MaxSubquestionsArgs
                        ELSE {MAX_SUBQUESTIONS},
     env : Eset]

LibraryInputs ==
    LibraryCall("rewrite_query", {"None"}, {K_DEFAULT},
                StrategyEnvs(RewriteOutcomes, NoDecomp, OneRetrieval, NoHyde))
    \cup LibraryCall("decompose_query", {"None"}, {K_DEFAULT},
                StrategyEnvs(NoRewrite, DecompOutcomes, OneRetrieval, NoHyde))
    \cup LibraryCall("retrieve", {"BasicRetrievalStrategy"}, StrategyKs,
                StrategyEnvs(NoRewrite, NoDecomp, FirstRetrievals, NoHyde))
    \cup LibraryCall("retrieve", {"QueryRewriteRetrievalStrategy"}, {K_DEFAULT},
                StrategyEnvs(RewriteOutcomes, NoDecomp, FirstRetrievals, NoHyde))
    \cup LibraryCall("retrieve", {"QueryDecompositionStrategy"}, StrategyKs,
                StrategyEnvs(RewriteOutcomes, DecompOutcomes, AllRetrievals, NoHyde))
    \cup LibraryCall("retrieve", {"HyDERetrievalStrategy"}, {K_DEFAULT},
                StrategyEnvs(NoRewrite, NoDecomp, FirstRetrievals, HydeOutcomes))
    \cup LibraryCall("adaptive_decomposition", {"None"}, StrategyKs,
                StrategyEnvs(RewriteOutcomes, DecompOutcomes, AllRetrievals, NoHyde))

InitStrategies ==
    /\ InitServer
    /\ InitConsole
    /\ ar_in = NoInput
    /\ ar_out = NotCalled
    /\ InitTiming
    /\ strategies = RegistryAtImport
    /\ registered = ImportRegistrations
    /\ lib_in \in LibraryInputs
    /\ lib_out = NotCalled

\* the call returns or raises r: the timing statistics and the clock are
\* those it leaves
Finish(r) ==
    /\ lib_out' = [called |-> TRUE, result |-> r]
    /\ global_timing_stats' = r.w.ts
    /\ now' = r.w.now

\* QueryProcessors.rewrite_query(query) or decompose_query(query)
CallQueryProcessor ==
    /\ ~lib_out.called
    /\ lib_in.op \in {"rewrite_query", "decompose_query"}
    /\ IF lib_in.op = "rewrite_query"
       THEN Finish(rewrite_query(lib_in.query,
                                 World(<<>>, global_timing_stats, now), lib_in.env))
       ELSE Finish(decompose_query_max(lib_in.query, lib_in.max_subquestions,
                                       World(<<>>, global_timing_stats, now), lib_in.env))
    /\ UNCHANGED <<consoleVars, serverVars, ar_in, ar_out, frames, recorded, timing_last,
                   strategies, registered, lib_in>>

\* StrategyRegistry.get_strategy(name, retriever, llm).retrieve(query, k)
CallStrategy ==
    /\ ~lib_out.called
    /\ lib_in.op = "retrieve"
    /\ Finish(retrieve(get_strategy(strategies, class_name(lib_in.strategy_class),
                                    "retriever", "llm").val.class,
                       lib_in.query, lib_in.k,
                       World(<<>>, global_timing_stats, now), lib_in.env))
    /\ UNCHANGED <<consoleVars, serverVars, ar_in, ar_out, frames, recorded, timing_last,
                   strategies, registered, lib_in>>

\* advanced_rag.py:198-220: the decomposition branch of adaptive_retrieval
CallDecompositionBranch ==
    /\ ~lib_out.called
    /\ lib_in.op = "adaptive_decomposition"
    /\ lib_out' = [called |-> TRUE,
                   result |-> DecompositionBranch(DecompositionAnalysis, lib_in.query,
                                                  lib_in.k, <<>>, lib_in.env)]
    /\ UNCHANGED <<consoleVars, serverVars, ar_in, ar_out, timingVars, strategies, registered, lib_in>>

NextStrategies == CallQueryProcessor \/ CallStrategy \/ CallDecompositionBranch

SpecStrategies == InitStrategies /\ [][NextStrategies]_vars

-----------------------------------------------------------------------------
(* Document loading, src/src/data_ingestion/loaders.py.  File names are    *)
(* character sequences; os.walk gives the directories in walk order, each  *)
(* with its file names.                                                    *)

SUFFIX_MD == << ".", "m", "d" >>
SUFFIX_TXT == << ".", "t", "x", "t" >>
SUFFIX_PDF == << ".", "p", "d", "f" >>
SUFFIX_HTML == << ".", "h", "t", "m", "l" >>
SUFFIX_HTM == << ".", "h", "t", "m" >>

\* str.endswith
endswith(file, suffix) ==
    /\ Len(file) >= Len(suffix)
    /\ SubSeq(file, Len(file) - Len(suffix) + 1, Len(file)) = suffix

\* .htm files are not taken for HTML
loader_for_html_only(file) ==
    IF endswith(file, SUFFIX_MD) THEN "load_markdown"
    ELSE IF endswith(file, SUFFIX_TXT) THEN "load_text"
    ELSE IF endswith(file, SUFFIX_PDF) THEN "load_pdf"
    ELSE IF endswith(file, SUFFIX_HTML) THEN "load_html"
    ELSE "ignored"

\* loaders.py:59-67: the loader chosen by the file's extension
loader_for(file) ==
    IF endswith(file, SUFFIX_MD) THEN "load_markdown"
    ELSE IF endswith(file, SUFFIX_TXT) THEN "load_text"
    ELSE IF endswith(file, SUFFIX_PDF) THEN "load_pdf"
    ELSE IF endswith(file, SUFFIX_HTML) \/ endswith(file, SUFFIX_HTM) THEN "load_html"
    ELSE "ignored"

\* documents a loader returns for one file: a PDF gives one per page
PDF_PAGES == 2
DocumentsPerFile(loader) == IF loader = "load_pdf" THEN PDF_PAGES ELSE 1

\* loaders.py:16-38: loader.load() of the file at os.path.join(root, file)
load(loader, root, file) ==
    [i \in 1..DocumentsPerFile(loader) |->
        [page_content |-> << loader, root, file, i >>,
         metadata |-> [source |-> << root, file >>]]]

\* loaders.py:55-67: the files of one directory, from the i-th on
RECURSIVE LoadFiles(_, _, _, _)
LoadFiles(root, files, i, documents) ==
    IF i > Len(files) THEN documents
    ELSE LoadFiles(root, files, i + 1,
                   IF loader_for(files[i]) = "ignored" THEN documents
                   ELSE documents \o load(loader_for(files[i]), root, files[i]))

\* loaders.py:49-69, DocumentLoader.load_directory: walk is what
\* os.walk(directory_path) yields, from its i-th directory on
RECURSIVE load_directory(_, _, _)
load_directory(walk, i, documents) ==
    IF i > Len(walk) THEN documents
    ELSE load_directory(walk, i + 1,
                        LoadFiles(walk[i].root, walk[i].files, 1, documents))

\* file names of every kind
FileNames ==
    { << "a" >> \o SUFFIX_MD, << "b" >> \o SUFFIX_TXT, << "c" >> \o SUFFIX_PDF,
      << "d" >> \o SUFFIX_HTML, << "e" >> \o SUFFIX_HTM,
      << "f", ".", "b", "i", "n" >>, << "g", ".", "M", "D" >>,
      << "R", "E", "A", "D", "M", "E" >> }

MaxFiles == 2       \* files in one directory

\* the listings of a directory: distinct names, in any order
Listings ==
    { fs \in UNION { [1..n -> FileNames] : n \in 0..MaxFiles } :
        \A i, j \in 1..Len(fs) : fs[i] = fs[j] => i = j }

\* a directory with one sub-directory, as os.walk yields it
Walks ==
    { << [root |-> "docs", files |-> top], [root |-> "docs/sub", files |-> sub] >> :
        top \in Listings, sub \in Listings }

-----------------------------------------------------------------------------
(* The Ingestion CLI, src/scripts/ingest.py, with the document processor   *)
(* (src/src/data_ingestion/processors.py) and the vector store's           *)
(* constructor (src/src/vectordb/store.py).  A run r is the record of what *)
(* it has done so far: lines printed, directories created, clients built,  *)
(* chunks collected and added.                                             *)

MSG_USAGE == "no documents to process, specify --docs_dir or --code_dir"
MSG_DONE == "done, documents added to the vector database"

\* an argparse option left out; a string option is true unless None or empty
NotGiven == "None"
Truthy(option) == option # NotGiven /\ option # ""

StartOfRun ==
    [ok |-> TRUE, printed |-> <<>>, makedirs |-> {}, embedding_clients |-> 0,
     vector_stores |-> <<>>, all_docs |-> <<>>, added |-> <<>>]

\* processors.py:51-60: the splitter used for a document type
splitter_for(document_type) ==
    IF document_type = "markdown" THEN "split_markdown"
    ELSE IF document_type = "code" THEN "split_code"
    ELSE "split_text"

\* processors.py:15-48: split_documents cuts every document into chunks that
\* keep its metadata; env.chunks is the number of chunks of a document
split_documents(splitter, documents, env) ==
    [c \in 1..(Len(documents) * env.chunks) |->
        [page_content |-> << splitter, documents[((c - 1) \div env.chunks) + 1].page_content,
                             ((c - 1) % env.chunks) + 1 >>,
         metadata |-> documents[((c - 1) \div env.chunks) + 1].metadata]]

\* processors.py:62-67, DocumentProcessor.add_source_metadata
add_source_metadata(documents, source) ==
    [c \in 1..Len(documents) |->
        [documents[c] EXCEPT !.metadata = [@ EXCEPT !.source = source]]]

\* ingest.py:16-47, process_documents: the chunks of a directory
process_documents(input_dir, document_type, env) ==
    add_source_metadata(
        split_documents(splitter_for(document_type),
                        load_directory(env.walk[input_dir], 1, <<>>), env),
        input_dir)

\* store.py:13-38, VectorStore.__init__: the embedding client is built, the
\* persist directory is created, the collection is opened
VectorStore_init(r, persist_directory, env) ==
    IF ~env.embeddings_ok
    THEN [r EXCEPT !.ok = FALSE]
    ELSE [r EXCEPT !.embedding_clients = @ + 1,
                   !.makedirs = @ \cup {persist_directory},
                   !.vector_stores = Append(@, persist_directory)]

\* ingest.py:72-79 and 82-90: the chunks of a directory option, when given
Collect(r, option, document_type, env) ==
    IF ~r.ok \/ ~Truthy(option) THEN r
    ELSE [r EXCEPT !.printed = Append(@, "loading"),
                   !.all_docs = @ \o process_documents(option, document_type, env)]

\* ingest.py:92-100: leave with the usage note, or add the chunks
AddOrLeave(r) ==
    IF ~r.ok THEN r
    ELSE IF r.all_docs = <<>> THEN [r EXCEPT !.printed = Append(@, MSG_USAGE)]
    ELSE [r EXCEPT !.added = r.all_docs, !.printed = Append(@, MSG_DONE)]

\* ingest.py:50-100, main
main(args, env) ==
    AddOrLeave(
        Collect(
            Collect(VectorStore_init(StartOfRun, args.vector_db_path, env),
                    args.docs_dir, args.doc_type, env),
            args.code_dir, "code", env))

\* what os.walk yields for the directories named on the command line
SmallWalks ==
    { <<>>,
      << [root |-> "dir", files |-> << << "a" >> \o SUFFIX_MD >>] >>,
      << [root |-> "dir", files |-> << << "f", ".", "b", "i", "n" >> >>] >> }

IngestEnvs ==
    [walk : [{"docs", "code"} -> SmallWalks], chunks : {1, 2}, embeddings_ok : BOOLEAN]

IngestArgs ==
    [docs_dir : {NotGiven, "", "docs"}, code_dir : {NotGiven, "code"},
     doc_type : {"markdown", "text"}, vector_db_path : {"./vectorstore"}]

IngestInputs ==
    [called : {TRUE}, op : {"main"}, args : IngestArgs, env : IngestEnvs]
    \cup [called : {TRUE}, op : {"load_directory"}, walk : Walks]

InitIngest ==
    /\ InitServer
    /\ InitConsole
    /\ ar_in = NoInput
    /\ ar_out = NotCalled
    /\ InitTiming
    /\ strategies = RegistryAtImport
    /\ registered = ImportRegistrations
    /\ lib_in \in IngestInputs
    /\ lib_out = NotCalled

\* DocumentLoader.load_directory(directory_path)
CallLoadDirectory ==
    /\ ~lib_out.called
    /\ lib_in.op = "load_directory"
    /\ lib_out' = [called |-> TRUE, result |-> Ok(load_directory(lib_in.walk, 1, <<>>))]
    /\ UNCHANGED <<consoleVars, serverVars, ar_in, ar_out, timingVars, strategies, registered, lib_in>>

\* python scripts/ingest.py with the given options
CallMain ==
    /\ ~lib_out.called
    /\ lib_in.op = "main"
    /\ lib_out' = [called |-> TRUE, result |-> main(lib_in.args, lib_in.env)]
    /\ UNCHANGED <<consoleVars, serverVars, ar_in, ar_out, timingVars, strategies, registered, lib_in>>

NextIngest == CallLoadDirectory \/ CallMain

SpecIngest == InitIngest /\ [][NextIngest]_vars

-----------------------------------------------------------------------------
(* The Strategy Registry, src/src/retrieval/retrieval_strategies.py *)

\* retrieval_strategies.py:162, 189-192: the names registered at import
StrategyRegistry_strategies == {"basic", "query_rewrite", "decomposition", "hyde"}

-----------------------------------------------------------------------------
(* Reading the state: the request handled last and the calls it made *)

CallsOf(calls, op) == SelectSeq(calls, LAMBDA c : c.op = op)

LLMOps == {"standalone_llm", "condense_llm", "analysis_llm", "rewrite_llm",
           "decomposition_llm", "combine_llm"}

\* no retrieval and no LLM call among the calls
NoRetrievalNoLLM(calls) ==
    \A i \in 1..Len(calls) :
        calls[i].op \notin LLMOps \cup {"retriever", "adaptive_retrieval"}

\* a string that is empty once its whitespace is trimmed
Blank(q) == \A i \in 1..Len(q) : q[i] = " "

\* a step in which the running server handles one /query request
QueryStep == serverState = "running" /\ serverState' = "running"

\* the memory the handler of request' works on once the clearing is done
BaseMemory == IF request'.clear_history THEN <<>> ELSE memory

-----------------------------------------------------------------------------
\* C1: every successful advanced-path query appends exactly two messages to
\* the Conversation Memory, the human message holding the original question
\* immediately followed by the assistant message holding the returned answer,
\* and no other request appends anything; so the memory is always an
\* alternating human/assistant sequence, two messages per successful query
\* since the last clear.
C1_Alternating ==
    /\ Len(memory) % 2 = 0
    /\ \A i \in 1..Len(memory) :
          memory[i].type = IF i % 2 = 1 THEN "human" ELSE "ai"

C1_AppendStep ==
    QueryStep =>
        IF response'.status = 200 /\ ~Blank(request'.question)
        THEN memory' = BaseMemory \o << [type |-> "human", content |-> request'.question],
                                       [type |-> "ai", content |-> response'.answer] >>
        ELSE memory' = BaseMemory

C1_MemoryPairs == [](C1_Alternating) /\ [][C1_AppendStep]_vars

\* two successful queries in a row, the second reformulated by the LLM: the
\* memory holds the original question of the second, not the standalone one
C1_Witness ==
    /\ Len(memory) = 4
    /\ response.status = 200
    /\ Len(CallsOf(trace, "standalone_llm")) = 1
    /\ CallsOf(trace, "standalone_llm")[1].out.val # request.question
    /\ memory[3].content = request.question
    /\ memory[4].content = response.answer

-----------------------------------------------------------------------------
\* C2: a /query request with clear_history=true empties the Conversation
\* Memory and resets last_retrieval_metadata before the question is examined,
\* also when the question is empty; the advanced-path query that follows the
\* clearing (in the same request, or the next one on the still empty memory)
\* runs no reformulation call and analyses the question itself.
C2_ClearStep ==
    (QueryStep /\ request'.clear_history) =>
        /\ Len(trace') >= 1
        /\ trace'[1] = [op |-> "clear_history", dropped |-> Len(memory)]
        /\ IF Blank(request'.question)
           THEN /\ memory' = <<>>
                /\ last_retrieval_metadata' = EmptyDict
                /\ Len(trace') = 1
           ELSE /\ CallsOf(trace', "standalone_llm") = <<>>
                /\ Len(trace') >= 2
                /\ trace'[2] = [op |-> "analysis_llm", arg |-> request'.question]
                /\ response'.status = 500 => memory' = <<>>
                /\ CallsOf(trace', "combine_llm") = <<>>
                      => last_retrieval_metadata' = EmptyDict

C2_NextQueryStep ==
    (QueryStep /\ memory = <<>> /\ ~Blank(request'.question)) =>
        /\ CallsOf(trace', "standalone_llm") = <<>>
        /\ CallsOf(trace', "analysis_llm")
              = << [op |-> "analysis_llm", arg |-> request'.question] >>

C2_ClearHistoryFirst == [][C2_ClearStep /\ C2_NextQueryStep]_vars

\* a request that clears a history of one turn and is then answered
C2_Witness ==
    /\ request.clear_history
    /\ ~Blank(request.question)
    /\ trace[1] = [op |-> "clear_history", dropped |-> 2]
    /\ response.status = 200
    /\ Len(memory) = 2
    /\ CallsOf(trace, "standalone_llm") = <<>>

-----------------------------------------------------------------------------
\* C3: a /query request whose question is empty after trimming whitespace,
\* served by an initialized model, gets the fixed canned answer with an empty
\* source_documents list; neither retrieval nor the LLM is invoked and
\* nothing is appended to the Conversation Memory.
C3_CannedAnswer ==
    (response.status # 0 /\ Blank(request.question)) =>
        /\ response = [status |-> 200, answer |-> MSG_EMPTY_QUESTION,
                       source_documents |-> <<>>]
        /\ NoRetrievalNoLLM(trace)

C3_NothingAppended ==
    (QueryStep /\ Blank(request'.question)) => memory' = BaseMemory

C3_EmptyQuestion == [](C3_CannedAnswer) /\ [][C3_NothingAppended]_vars

\* a question of one space, asked when the memory holds one turn
C3_Witness ==
    /\ request.question = <<" ">>
    /\ ~request.clear_history
    /\ response.status = 200
    /\ response.answer = MSG_EMPTY_QUESTION
    /\ Len(memory) = 2

-----------------------------------------------------------------------------
\* C4 (as claimed): the advanced_rag field of a /query request decides the
\* path of that call: a question sent with advanced_rag=false is answered
\* through the standard chain, without query analysis or adaptive retrieval.
C4_AdvancedRagFieldDecidesPath ==
    (response.status # 0 /\ ~Blank(request.question) /\ ~request.advanced_rag) =>
        /\ CallsOf(trace, "analysis_llm") = <<>>
        /\ CallsOf(trace, "adaptive_retrieval") = <<>>

-----------------------------------------------------------------------------
\* C5: on the advanced path adaptive retrieval is run on the standalone
\* question, which is the question itself when the memory holds no prior turn
\* and the LLM's reformulation otherwise; the answer-combination stage gets
\* the original question with exactly the documents the retrieval returned;
\* last_retrieval_metadata becomes the metadata of that retrieval.
C5_Standalone(sl, an) ==
    IF BaseMemory = <<>>
    THEN /\ sl = <<>>
         /\ an = << [op |-> "analysis_llm", arg |-> request'.question] >>
    ELSE /\ Len(sl) = 1
         /\ sl[1].question = request'.question
         /\ sl[1].chat_history = BaseMemory
         /\ IF sl[1].out.ok
            THEN an = << [op |-> "analysis_llm", arg |-> sl[1].out.val] >>
            ELSE an = <<>>

C5_Retrieval(an, ar, cb) ==
    /\ Len(ar) = Len(an)
    /\ \A i \in 1..Len(ar) : ar[i].query = an[i].arg
    /\ IF Len(ar) = 1 /\ ar[1].out.ok
       THEN /\ Len(cb) = 1
            /\ cb[1].question = request'.question
            /\ cb[1].input_documents = ar[1].out.val.documents
            /\ last_retrieval_metadata' = ar[1].out.val.metadata
       ELSE cb = <<>>

C5_Step ==
    (QueryStep /\ ~Blank(request'.question)) =>
        /\ C5_Standalone(CallsOf(trace', "standalone_llm"), CallsOf(trace', "analysis_llm"))
        /\ C5_Retrieval(CallsOf(trace', "analysis_llm"),
                        CallsOf(trace', "adaptive_retrieval"),
                        CallsOf(trace', "combine_llm"))

C5_RetrievalOnStandalone == [][C5_Step]_vars

\* a follow-up question, reformulated, retrieved by decomposition and answered
C5_Witness ==
    /\ response.status = 200
    /\ Len(CallsOf(trace, "standalone_llm")) = 1
    /\ CallsOf(trace, "standalone_llm")[1].out.val # request.question
    /\ CallsOf(trace, "adaptive_retrieval")[1].query
          = CallsOf(trace, "standalone_llm")[1].out.val
    /\ CallsOf(trace, "combine_llm")[1].question = request.question
    /\ last_retrieval_metadata.strategy_used = "decomposition"
    /\ Len(CallsOf(trace, "combine_llm")[1].input_documents) = 2

-----------------------------------------------------------------------------
(* adaptive_retrieval called on its own: its input and its outcome *)

AnalysisText == ar_in.env.analysis.val

\* adaptive_retrieval was called and the analysis LLM returned a text
Analysed == ar_out.called /\ ar_in.base_retriever_bound /\ ar_in.env.analysis.ok

\* the text can be parsed neither as fenced JSON nor as a literal
Unparsable(text) ==
    IF startswith_json_fence(text)
    THEN ~json_loads(Slice_7_3(text)).ok
    ELSE ~ast_literal_eval(text).ok

\* the dict the text denotes, when it can be parsed
Denoted(text) ==
    IF startswith_json_fence(text)
    THEN json_loads(Slice_7_3(text)).val
    ELSE ast_literal_eval(text).val

\* errors of the external services, as opposed to errors of the parsing
ServiceErrors == {LLM_ERROR, RETRIEVER_ERROR}

\* the fixed default analysis of the specification
SpecDefaultAnalysis ==
    [complexity |-> "medium",
     requires_code_examples |-> FALSE,
     is_technical |-> TRUE,
     recommended_strategy |-> "basic",
     explanation |-> "parsing failed, using default strategy"]

\* C6 (as claimed): when the analysis names a recommended_strategy that is
\* not registered, for any complexity, adaptive retrieval executes the basic
\* strategy, reports strategy_used = basic, and the returned analysis carries
\* an explanation with the fallback notice; the unknown name fails nothing.
C6_UnregisteredFallsBackToBasic ==
    (/\ Analysed
     /\ ~Unparsable(AnalysisText)
     /\ Denoted(AnalysisText).recommended_strategy \notin StrategyRegistry_strategies) =>
        IF ar_out.result.ok
        THEN /\ ar_out.result.val.metadata.strategy_used = "basic"
             /\ CallsOf(ar_out.result.calls, "rewrite_llm") = <<>>
             /\ CallsOf(ar_out.result.calls, "decomposition_llm") = <<>>
             /\ "explanation" \in DOMAIN ar_out.result.val.metadata.analysis
        ELSE ar_out.result.err \in ServiceErrors

\* C7 (as claimed): for every analysis output that can be parsed neither as
\* JSON nor as a literal, fenced or unfenced, query analysis raises no error
\* and yields exactly the fixed default analysis, explanation included.
C7_UnparsableYieldsDefault ==
    (Analysed /\ Unparsable(AnalysisText)) =>
        IF ar_out.result.ok
        THEN ar_out.result.val.metadata.analysis = SpecDefaultAnalysis
        ELSE ar_out.result.err \in ServiceErrors

\* C8 (as claimed): when the analysis names a registered strategy, whatever
\* its complexity, adaptive retrieval executes exactly that strategy and the
\* strategy_used it reports is that name, always a registered one.
C8_RegisteredStrategyExecuted ==
    (/\ Analysed
     /\ ~Unparsable(AnalysisText)
     /\ Denoted(AnalysisText).recommended_strategy \in StrategyRegistry_strategies
     /\ ar_out.result.ok) =>
        /\ ar_out.result.val.metadata.strategy_used
              = Denoted(AnalysisText).recommended_strategy
        /\ ar_out.result.val.metadata.strategy_used \in StrategyRegistry_strategies

-----------------------------------------------------------------------------
\* C9: an exception raised while the Conversational RAG Model handles a
\* non-empty question (reformulation, retrieval or answer stage) is never
\* turned into a normal answer: the response is a 500 carrying the error
\* message, the model stays in place and the running server goes on
\* accepting requests.
FallibleOps == {"standalone_llm", "adaptive_retrieval", "combine_llm"}

C9_ErrorsSurface ==
    /\ \A i \in 1..Len(trace) :
          (trace[i].op \in FallibleOps /\ ~trace[i].out.ok) =>
              response = [status |-> 500,
                          detail |-> <<MSG_QUERY_ERROR, trace[i].out.err>>]
    /\ response.status = 500 =>
          /\ rag_model = "RAGModel"
          /\ serverState = "running" => ENABLED Query

\* the retriever fails while the memory holds one turn
C9_Witness ==
    /\ response = [status |-> 500, detail |-> <<MSG_QUERY_ERROR, RETRIEVER_ERROR>>]
    /\ Len(memory) = 2
    /\ serverState = "running"

-----------------------------------------------------------------------------
\* C10: the /query handler run while the model is not initialized fails with
\* status 500 ("model not initialized") for every request body, before the
\* history is cleared, the question is examined or any query is made; and
\* since a failed initialization aborts the startup, no request is ever
\* served by a server whose model is not initialized.
C10_Refused(h) ==
    /\ h.response = [status |-> 500, detail |-> <<MSG_NOT_INITIALIZED>>]
    /\ h.self = Self
    /\ h.calls = <<>>

C10_ModelNotInitialized ==
    /\ \A body \in RequestBodies, env \in ServerEnvs :
          C10_Refused(query("None", Self, body, env))
    /\ response.status # 0 => rag_model = "RAGModel"
    /\ rag_model = "None" => serverState \in {"starting", "aborted"}
    /\ serverState = "aborted" => response = NoResponse

\* the startup failed after the vector store was built: nothing is served
C10_Witness ==
    /\ serverState = "aborted"
    /\ vector_store = "VectorStore"
    /\ rag_model = "None"
    /\ response = NoResponse

-----------------------------------------------------------------------------
(* Reading the timing statistics *)

\* the entry of an operation, one never folded having none
CountOf(self, operation) ==
    IF operation \in DOMAIN self.stats THEN self.stats[operation].count ELSE 0

TotalOf(self, operation) ==
    IF operation \in DOMAIN self.stats THEN self.stats[operation].total_time ELSE 0

RECURSIVE SeqSum(_)
SeqSum(s) == IF s = <<>> THEN 0 ELSE Head(s) + SeqSum(Tail(s))

Elems(s) == { s[i] : i \in 1..Len(s) }
Least(S) == CHOOSE x \in S : \A y \in S : x <= y
Greatest(S) == CHOOSE x \in S : \A y \in S : y <= x

\* every entry but operation's is as before the step
OthersUntouched(operation) ==
    /\ DOMAIN global_timing_stats'.stats \ {operation}
           = DOMAIN global_timing_stats.stats \ {operation}
    /\ \A o \in DOMAIN global_timing_stats.stats \ {operation} :
           global_timing_stats'.stats[o] = global_timing_stats.stats[o]

\* the step leaves the innermost block, of the given kind
ExitStep(kind) ==
    /\ frames # <<>>
    /\ Len(frames') = Len(frames) - 1
    /\ Top.kind = kind

\* the elapsed time of the active timer
ActiveElapsed == now - global_timing_stats.start_time.t

-----------------------------------------------------------------------------
\* C15 as stated: every completed measure(op) block adds exactly 1 to op's
\* count and its elapsed time e to op's total_time, and leaves the statistics
\* of every other operation untouched.
C15_EveryMeasureBlockFolds ==
    [][ExitStep("measure") =>
          /\ CountOf(global_timing_stats', Top.operation)
                 = CountOf(global_timing_stats, Top.operation) + 1
          /\ \E e \in 0..now :
                 TotalOf(global_timing_stats', Top.operation)
                     = TotalOf(global_timing_stats, Top.operation) + e
          /\ OthersUntouched(Top.operation)]_vars

\* every entry summarises the elapsed times recorded for its operation:
\* their number, sum, minimum and maximum
C15_EntriesSummarise ==
    \A o \in Operations :
        IF recorded[o] = <<>> THEN o \notin DOMAIN global_timing_stats.stats
        ELSE /\ o \in DOMAIN global_timing_stats.stats
             /\ global_timing_stats.stats[o] =
                    [count |-> Len(recorded[o]),
                     total_time |-> SeqSum(recorded[o]),
                     min_time |-> Fin(Least(Elems(recorded[o]))),
                     max_time |-> Greatest(Elems(recorded[o]))]

\* a measure(op) block left with no other timer call made on the instance
\* meanwhile: its timer is the active one, and its elapsed time is recorded
\* for op and for no other operation
C15_UndisturbedExit ==
    ExitStep("measure") /\ Top.undisturbed =>
        /\ global_timing_stats.current_operation = Top.operation
        /\ global_timing_stats.start_time.set
        /\ recorded' = [recorded EXCEPT ![Top.operation] = Append(@, ActiveElapsed)]
        /\ CountOf(global_timing_stats', Top.operation)
               = CountOf(global_timing_stats, Top.operation) + 1
        /\ TotalOf(global_timing_stats', Top.operation)
               = TotalOf(global_timing_stats, Top.operation) + ActiveElapsed
        /\ OthersUntouched(Top.operation)

\* C15, amended: each completed measure(op) block during which no other
\* start-timer or stop-timer call is made on the instance adds exactly 1 to
\* op's count and its elapsed time to op's total_time; min_time and max_time
\* are the minimum and the maximum of all elapsed times recorded for op so
\* far; the statistics of every other operation are untouched.
C15_MeasureFolds == [](C15_EntriesSummarise) /\ [][C15_UndisturbedExit]_vars

\* a second measurement of op1, shorter than the first, has lowered min_time
\* and left max_time
C15_Witness ==
    /\ timing_last.call = "measure"
    /\ Len(recorded["op1"]) = 2
    /\ recorded["op1"][2] < recorded["op1"][1]
    /\ "op1" \in DOMAIN global_timing_stats.stats
    /\ global_timing_stats.stats["op1"].min_time = Fin(recorded["op1"][2])
    /\ global_timing_stats.stats["op1"].max_time = recorded["op1"][1]

-----------------------------------------------------------------------------
\* a direct start_timer call has been made by the step
StartTimerStep ==
    /\ timing_last'.call = "start_timer"
    /\ Len(frames') = Len(frames)
    /\ recorded' = recorded
    /\ now' = now

\* a direct stop_timer call has been made by the step
StopTimerStep ==
    /\ timing_last'.call = "stop_timer"
    /\ Len(frames') = Len(frames)
    /\ now' = now

\* start-timer replaces whatever timer is active: the operation named becomes
\* the active one, started now, and no statistics change
C16_StartReplaces ==
    StartTimerStep =>
        /\ timing_last'.replaced = global_timing_stats.current_operation
        /\ global_timing_stats'.current_operation = timing_last'.operation
        /\ global_timing_stats'.start_time = Time(now)
        /\ global_timing_stats'.stats = global_timing_stats.stats

\* stop-timer attributes the time since the last start-timer to the active
\* operation only, and returns it; with no active timer it returns 0 and
\* changes no statistics
C16_StopAttributes ==
    StopTimerStep =>
        IF global_timing_stats.current_operation \in Operations
        THEN /\ timing_last'.ret = ActiveElapsed
             /\ CountOf(global_timing_stats', global_timing_stats.current_operation)
                    = CountOf(global_timing_stats, global_timing_stats.current_operation) + 1
             /\ TotalOf(global_timing_stats', global_timing_stats.current_operation)
                    = TotalOf(global_timing_stats, global_timing_stats.current_operation)
                      + ActiveElapsed
             /\ OthersUntouched(global_timing_stats.current_operation)
        ELSE /\ timing_last'.ret = 0
             /\ global_timing_stats'.stats = global_timing_stats.stats

\* a step that calls stop_timer: directly, or leaving a measure block or a
\* timed call with a statistics instance
StopCalled ==
    \/ StopTimerStep
    \/ ExitStep("measure")
    \/ ExitStep("timed") /\ Top.stats_instance

\* after any stop-timer no timer is active
C16_StopDeactivates ==
    StopCalled =>
        /\ global_timing_stats'.current_operation = NoOperation
        /\ global_timing_stats'.start_time = NoTime

\* the operation and the start time are set and cleared together
C16_OneTimer ==
    /\ global_timing_stats.current_operation \in Operations \cup {NoOperation}
    /\ global_timing_stats.start_time.set
           <=> global_timing_stats.current_operation \in Operations

\* C16: a statistics instance has at most one active timer; start-timer while
\* another timer is active replaces the active operation and its start time,
\* so that the next stop-timer attributes the elapsed time to the later
\* operation only; stop-timer with no active timer returns 0 and leaves all
\* statistics unchanged; after any stop-timer no timer is active.
C16_SingleActiveTimer ==
    /\ [](C16_OneTimer)
    /\ [][C16_StartReplaces /\ C16_StopAttributes /\ C16_StopDeactivates]_vars

\* op2's timer replaced op1's, which was started earlier and never stopped
C16_Witness ==
    /\ timing_last.call = "start_timer"
    /\ timing_last.replaced = "op1"
    /\ timing_last.operation = "op2"
    /\ global_timing_stats.current_operation = "op2"
    /\ global_timing_stats.start_time = Time(now)
    /\ now > 0
    /\ recorded["op1"] = <<>>

-----------------------------------------------------------------------------
\* the step leaves a measure block, or a timed call with a statistics
\* instance, whose body raised
RaisingExit ==
    /\ ExitStep("measure") \/ (ExitStep("timed") /\ Top.stats_instance)
    /\ timing_last'.raised

\* C17 as stated: when the block of measure(op), or an operation wrapped by
\* timed with a statistics instance, raises, op's count is incremented, no
\* timer remains active and the error propagates.
C17_RaisingBlockCounted ==
    [][RaisingExit =>
          /\ CountOf(global_timing_stats', Top.operation)
                 = CountOf(global_timing_stats, Top.operation) + 1
          /\ NoActiveTimer(global_timing_stats')
          /\ timing_last'.call \in {"measure", "timed"}]_vars

\* stop_timer has run at the exit: the timer that was active, if any, is
\* folded and none remains active; the block's own operation is counted when
\* no other timer call was made on the instance meanwhile; the error goes on
\* to the caller
C17_RaisingExit ==
    RaisingExit =>
        /\ NoActiveTimer(global_timing_stats')
        /\ global_timing_stats'.current_operation = NoOperation
        /\ recorded' = RecordStop
        /\ \A o \in Operations :
               CountOf(global_timing_stats', o) = Len(recorded'[o])
        /\ Top.undisturbed =>
               CountOf(global_timing_stats', Top.operation)
                   = CountOf(global_timing_stats, Top.operation) + 1
        /\ timing_last'.call \in {"measure", "timed"}
        /\ timing_last'.raised

\* C17, amended: when the block inside measure(op), or an operation wrapped by
\* the timing decorator with a statistics instance, raises, stop-timer is
\* still executed: no timer remains active afterwards and the original error
\* propagates to the caller; op's count is incremented provided no other
\* start-timer or stop-timer call was made on the instance inside the block.
C17_StopOnError == [][C17_RaisingExit]_vars

\* a measure block raised and its operation has been counted
C17_Witness ==
    /\ timing_last = [call |-> "measure", raised |-> TRUE]
    /\ frames = <<>>
    /\ NoActiveTimer(global_timing_stats)
    /\ CountOf(global_timing_stats, "op1") = 1
    /\ recorded["op2"] = <<>>

-----------------------------------------------------------------------------
\* C14: the Retrieval Metadata returned by every successful adaptive
\* retrieval contains the key performance, holding the summary of the
\* process-wide timing statistics (operation name to accumulated total time)
\* at that moment.
C14_MetadataHasPerformance ==
    ar_out.called /\ ar_out.result.ok =>
        /\ "performance" \in DOMAIN ar_out.result.val.metadata
        /\ ar_out.result.val.metadata.performance = get_summary(global_timing_stats)

-----------------------------------------------------------------------------
\* the positions in the history of the registrations made under a name
RegistrationsOf(name) ==
    { i \in 1..Len(registered) : class_name(registered[i]) = name }

\* the step is a get_strategy call
GetStrategyStep == lib_in'.called /\ lib_in'.op = "get_strategy"

\* the strategy requested is an instance of the class registered last under
\* the name, or the name was never registered and the call fails naming it;
\* the registry is as before
C12_GetStrategy ==
    GetStrategyStep =>
        /\ IF RegistrationsOf(lib_in'.name) # {}
           THEN /\ lib_out'.result.ok
                /\ lib_out'.result.val.class
                       = registered[Greatest(RegistrationsOf(lib_in'.name))]
                /\ lib_out'.result.val.retriever = lib_in'.retriever
           ELSE /\ ~lib_out'.result.ok
                /\ lib_out'.result.err.type = "ValueError"
                /\ lib_out'.result.err.message = << MSG_UNKNOWN_STRATEGY, lib_in'.name >>
        /\ strategies' = strategies

\* the names registered are those of the history; before any later
\* registration they are exactly basic, query_rewrite, decomposition and hyde
C12_RegisteredNames ==
    /\ DOMAIN strategies = { class_name(registered[i]) : i \in 1..Len(registered) }
    /\ registered = ImportRegistrations =>
           DOMAIN strategies = {"basic", "query_rewrite", "decomposition", "hyde"}

\* C12: at any time, constructing a strategy by name succeeds with an instance
\* of the class most recently registered under that name when the name is
\* registered (at process start exactly basic, query_rewrite, decomposition
\* and hyde are), and otherwise fails with an unknown-strategy error naming
\* the requested name, leaving the registry contents unchanged.
C12_RegistryLookup == [](C12_RegisteredNames) /\ [][C12_GetStrategy]_vars

\* basic was registered again by a caller, and the strategy requested under
\* basic is an instance of the caller's class
C12_Witness ==
    /\ lib_in.called /\ lib_in.op = "get_strategy" /\ lib_in.name = "basic"
    /\ lib_out.result.ok
    /\ lib_out.result.val.class = "CallerBasicStrategy"
    /\ registered[Len(registered)] = "CallerBasicStrategy"
    /\ registered[Len(registered) - 1] = "BasicRetrievalStrategy"

-----------------------------------------------------------------------------
(* Reading a library call: its input, its outcome and the calls it made *)

LibReturned == lib_out.called /\ lib_out.result.ok

\* the external calls of the library call made
LibCalls ==
    IF "w" \in DOMAIN lib_out.result THEN lib_out.result.w.calls ELSE lib_out.result.calls

\* a decomposition was run, by the strategy or by adaptive_retrieval's branch
DecompositionRun ==
    /\ lib_in.called
    /\ \/ lib_in.op = "retrieve" /\ lib_in.strategy_class = "QueryDecompositionStrategy"
       \/ lib_in.op = "adaptive_decomposition"

\* the sub-questions the decomposition was given by the LLM
GivenSubquestions ==
    IF lib_in.env.decomp.val.parses THEN lib_in.env.decomp.val.subquestions
    ELSE << lib_in.query >>

\* the documents retrieved for the first n sub-questions, in that order
RECURSIVE RetrievedFor(_)
RetrievedFor(n) ==
    IF n = 0 THEN <<>> ELSE RetrievedFor(n - 1) \o lib_in.env.retr[n].val

\* the positions of all_docs holding a page_content for the first time
FirstSeen(all_docs) ==
    { i \in 1..Len(all_docs) :
        \A j \in 1..(i - 1) : all_docs[j].page_content # all_docs[i].page_content }

\* the n-th smallest member of a set of positions
Nth(S, n) == CHOOSE i \in S : Cardinality({ j \in S : j < i }) = n - 1

\* C11: for every list of sub-questions and every k >= 0, the result of the
\* decomposition contains no two documents with equal page_content, keeps the
\* retrieved documents in first-seen order across the sub-questions in their
\* given order, and has at most k documents; a chunk retrieved for two
\* sub-questions appears once.
C11_DecompositionDeduplicates ==
    DecompositionRun /\ LibReturned =>
        LET documents == lib_out.result.val.documents
            all_docs == RetrievedFor(Len(GivenSubquestions))
        IN /\ \A i, j \in 1..Len(documents) :
                  documents[i].page_content = documents[j].page_content => i = j
           /\ Len(documents) <= lib_in.k
           /\ Len(documents) = Min(lib_in.k, Cardinality(FirstSeen(all_docs)))
           /\ \A n \in 1..Len(documents) :
                  documents[n] = all_docs[Nth(FirstSeen(all_docs), n)]

\* two sub-questions retrieved a chunk of the same content c1; the strategy
\* returns it once, as retrieved first, followed by the other chunk
C11_Witness ==
    /\ lib_in.called /\ lib_in.op = "retrieve"
    /\ lib_in.strategy_class = "QueryDecompositionStrategy"
    /\ LibReturned
    /\ Len(GivenSubquestions) = 2
    /\ lib_in.env.retr[1] = Ok(<<D1>>)
    /\ lib_in.env.retr[2] = Ok(<<D2, D3>>)
    /\ lib_in.k = K_DEFAULT
    /\ lib_out.result.val.documents = <<D1, D3>>

-----------------------------------------------------------------------------
\* the LLM answered and its structured output does not parse
RewriteUnparsable ==
    /\ lib_in.called /\ lib_in.op = "rewrite_query"
    /\ lib_in.env.rewrite.ok /\ ~lib_in.env.rewrite.val.parses

DecompUnparsable ==
    /\ lib_in.called /\ lib_in.op = "decompose_query"
    /\ lib_in.env.decomp.ok /\ ~lib_in.env.decomp.val.parses

\* C13: when the LLM's structured output cannot be parsed, rewrite-query
\* returns the original query unchanged and decompose-query returns the
\* single-element list holding the original query; in neither case is an
\* error raised to the caller.
C13_ParseFailureFallbacks ==
    lib_out.called =>
        /\ RewriteUnparsable =>
               lib_out.result.ok /\ lib_out.result.val = lib_in.query
        /\ DecompUnparsable =>
               lib_out.result.ok /\ lib_out.result.val = << lib_in.query >>

\* rewrite_query has returned the original query on an unparsable output
C13_Witness ==
    /\ RewriteUnparsable
    /\ LibReturned
    /\ lib_out.result.val = <<"a">>
    /\ Len(LibCalls) = 1

-----------------------------------------------------------------------------
\* the hyde strategy was run and the LLM gave a hypothetical answer
HydeRun ==
    /\ lib_in.called /\ lib_in.op = "retrieve"
    /\ lib_in.strategy_class = "HyDERetrievalStrategy"
    /\ lib_in.env.hyde.ok

\* C18: for every hypothetical answer, the hyde strategy's metadata field
\* hypothetical_answer equals the whole answer when its length is at most 300
\* characters, and otherwise equals its first 300 characters followed by the
\* ellipsis marker "..."; retrieval itself always uses the full, untruncated
\* hypothetical answer as the query.
C18_HydeAnswerTruncated ==
    HydeRun /\ lib_out.called =>
        LET answer == lib_in.env.hyde.val
            retrievals == SelectSeq(LibCalls, LAMBDA c : c.op = "retriever")
        IN /\ Len(retrievals) = 1
           /\ retrievals[1].arg = answer
           /\ lib_out.result.ok =>
                  LET reported == lib_out.result.val.metadata.hypothetical_answer
                  IN IF Len(answer) <= 300 THEN reported = answer
                     ELSE /\ Len(reported) = 303
                          /\ \A i \in 1..300 : reported[i] = answer[i]
                          /\ \A i \in 301..303 : reported[i] = "."

\* an answer of 301 characters was reported cut, and one of 300 whole
C18_Witness ==
    /\ HydeRun
    /\ LibReturned
    /\ Len(lib_in.env.hyde.val) = 301
    /\ Len(lib_out.result.val.metadata.hypothetical_answer) = 303

-----------------------------------------------------------------------------
\* the CLI was run with neither --docs_dir nor --code_dir
NeitherFlag ==
    /\ lib_in.called /\ lib_in.op = "main"
    /\ lib_in.args.docs_dir = NotGiven
    /\ lib_in.args.code_dir = NotGiven

\* C19: run with neither --docs_dir nor --code_dir, the Ingestion CLI prints
\* the usage note and exits without error, and it neither instantiates the
\* Vector Store (no persist directory is created, no embedding client is
\* built) nor adds any chunk; the Vector Store is instantiated only on the
\* path that adds chunks.
C19_NoFlagsNoVectorStore ==
    lib_in.called /\ lib_in.op = "main" /\ lib_out.called =>
        /\ NeitherFlag =>
               /\ lib_out.result.ok
               /\ lib_out.result.printed = << MSG_USAGE >>
               /\ lib_out.result.vector_stores = <<>>
               /\ lib_out.result.makedirs = {}
               /\ lib_out.result.embedding_clients = 0
               /\ lib_out.result.added = <<>>
        /\ lib_out.result.vector_stores # <<>> => lib_out.result.added # <<>>

-----------------------------------------------------------------------------
\* the name ends in the three or four characters of a supported extension
EndsIn3(f, c1, c2, c3) ==
    Len(f) >= 4 /\ f[Len(f) - 3] = "." /\ f[Len(f) - 2] = c1
                /\ f[Len(f) - 1] = c2 /\ f[Len(f)] = c3
EndsIn2(f, c1, c2) ==
    Len(f) >= 3 /\ f[Len(f) - 2] = "." /\ f[Len(f) - 1] = c1 /\ f[Len(f)] = c2
EndsIn4(f, c1, c2, c3, c4) ==
    Len(f) >= 5 /\ f[Len(f) - 4] = "." /\ f[Len(f) - 3] = c1 /\ f[Len(f) - 2] = c2
                /\ f[Len(f) - 1] = c3 /\ f[Len(f)] = c4

\* the loader of the file's extension, for a supported one
ExpectedLoader(f) ==
    CASE EndsIn2(f, "m", "d") -> "load_markdown"
      [] EndsIn3(f, "t", "x", "t") -> "load_text"
      [] EndsIn3(f, "p", "d", "f") -> "load_pdf"
      [] EndsIn4(f, "h", "t", "m", "l") \/ EndsIn3(f, "h", "t", "m") -> "load_html"
      [] OTHER -> "none"

\* the per-file results of the supported files among the first n files of
\* the walk's d-th directory, preceded by those of the directories before
RECURSIVE ExpectedDocuments(_, _, _)
ExpectedDocuments(walk, d, n) ==
    IF d = 0 THEN <<>>
    ELSE IF n = 0
         THEN ExpectedDocuments(walk, d - 1,
                                IF d = 1 THEN 0 ELSE Len(walk[d - 1].files))
    ELSE ExpectedDocuments(walk, d, n - 1)
         \o (IF ExpectedLoader(walk[d].files[n]) = "none" THEN <<>>
             ELSE load(ExpectedLoader(walk[d].files[n]), walk[d].root, walk[d].files[n]))

\* C20: for every directory tree, directory loading returns the
\* concatenation, in walk order, of the per-file loader results of exactly
\* the files whose name ends in .md, .txt, .pdf, .html or .htm, each such
\* file loaded once by the loader of its extension; every file with any other
\* extension contributes no document and causes no error.
C20_LoadDirectory ==
    lib_in.called /\ lib_in.op = "load_directory" /\ lib_out.called =>
        /\ lib_out.result.ok
        /\ lib_out.result.val
               = ExpectedDocuments(lib_in.walk, Len(lib_in.walk),
                                   Len(lib_in.walk[Len(lib_in.walk)].files))

\* a directory with an .htm file and an unsupported file, and a PDF in its
\* sub-directory: the HTML document, then the PDF's pages
C20_Witness ==
    /\ lib_in.called /\ lib_in.op = "load_directory" /\ lib_out.called
    /\ lib_in.walk[1].files = << << "f", ".", "b", "i", "n" >>, << "e" >> \o SUFFIX_HTM >>
    /\ lib_in.walk[2].files = << << "c" >> \o SUFFIX_PDF >>
    /\ Len(lib_out.result.val) = 1 + PDF_PAGES
    /\ lib_out.result.val[1].page_content[1] = "load_html"
    /\ lib_out.result.val[2].page_content[1] = "load_pdf"

-----------------------------------------------------------------------------
(* Chat Console: the message list of a session *)

Messages(c) == session_state[c].messages

\* the step in which session c sends a question
SubmitStep(c) == console_pc[c] = "idle" /\ console_pc'[c] = "submit"

\* the step in which session c has the outcome of its question
CompleteSubmitStep(c) == console_pc[c] = "submit" /\ console_pc'[c] = "idle"

\* the step in which session c presses the clear button
ClearStep(c) == console_pc[c] = "idle" /\ console_pc'[c] = "clear"

\* user and assistant messages alternate in l, starting with a user message
Alternates(l) ==
    \A i \in 1..Len(l) : l[i].role = IF i % 2 = 1 THEN "user" ELSE "assistant"

\* a submitted question appends one user message carrying it
C21_UserAppended ==
    \A c \in Clients :
        SubmitStep(c) =>
            /\ net'[c].kind = "request"
            /\ Messages(c)' = Append(Messages(c), UserMessage(net'[c].body.question))

\* the outcome appends one assistant message: the answer and the sources of
\* a 200, the text for a response without answer, the failure text alone
\* when no response arrived
C21_AssistantAppended ==
    \A c \in Clients :
        CompleteSubmitStep(c) =>
            LET last == Messages(c)'[Len(Messages(c)')]
            IN /\ Messages(c) # <<>>
               /\ Messages(c)[Len(Messages(c))].role = "user"
               /\ Len(Messages(c)') = Len(Messages(c)) + 1
               /\ SubSeq(Messages(c)', 1, Len(Messages(c))) = Messages(c)
               /\ last.role = "assistant"
               /\ net[c].kind = "error" =>
                     last = [role |-> "assistant", content |-> MSG_API_FAILURE]
               /\ net[c].kind = "reply" /\ net[c].response.status # 200 =>
                     /\ last.content = MSG_NO_ANSWER
                     /\ last.source_documents = <<>>
                     /\ last.retrieval_metadata = EmptyDict
               /\ net[c].kind = "reply" /\ net[c].response.status = 200 =>
                     /\ last.content = net[c].response.answer
                     /\ last.source_documents = net[c].response.source_documents

\* nothing else changes a session's list but its own clear button
C21_NothingElse ==
    \A c \in Clients :
        Messages(c)' # Messages(c) =>
            SubmitStep(c) \/ CompleteSubmitStep(c) \/ (ClearStep(c) /\ Messages(c)' = <<>>)

\* a session that waits for nothing holds whole turns, a session that waits
\* for the answer holds the question last
C21_WholeTurns ==
    \A c \in Clients :
        /\ Alternates(Messages(c))
        /\ Len(Messages(c)) % 2 = (IF console_pc[c] = "submit" THEN 1 ELSE 0)

\* C21: in the Chat Console, every submitted question appends exactly one
\* user message and then exactly one assistant message to the session's
\* message list, whether the API call succeeds, raises a network error, or
\* returns no usable response; on failure the assistant message is a generic
\* failure text carrying no source documents or retrieval diagnostics, and
\* the console goes on to the next action.
C21_OneTurnPerQuestion ==
    /\ [](C21_WholeTurns)
    /\ [][C21_UserAppended /\ C21_AssistantAppended /\ C21_NothingElse]_vars

\* a session holds two whole turns: a question whose request met a network
\* error, with the failure text, and a question the server answered with a 500
C21_Witness ==
    \E c \in Clients :
        /\ console_pc[c] = "idle"
        /\ Len(Messages(c)) = 4
        /\ Messages(c)[2] = FailureMessage
        /\ Messages(c)[4].content = MSG_NO_ANSWER
        /\ response.status = 500

-----------------------------------------------------------------------------
(* Chat Console: the clear button *)

\* the step in which session c's clear action is complete
CompleteClearStep(c) == console_pc[c] = "clear" /\ console_pc'[c] = "idle"

\* every turn in the server's history since the last clear is session c's
OnlyTurnsOf(c) == \A i \in 1..Len(turns) : turns[i].client = c

\* C22: after the Chat Console's clear-history action completes, the
\* session's local message list is empty and the server's Conversation
\* Memory is empty as well, also when the clear request to the server fails
\* (stated for a session whose turns are the only ones the server holds).
C22_ClearEmptiesBoth ==
    [][\A c \in Clients :
          CompleteClearStep(c) /\ OnlyTurnsOf(c) =>
              Messages(c)' = <<>> /\ memory' = <<>>]_vars

-----------------------------------------------------------------------------
(* The timing statistics after a strategy's retrieve *)

\* the strategies whose timed retrieve runs timed operations or measure blocks
NestingStrategies ==
    {"QueryRewriteRetrievalStrategy", "QueryDecompositionStrategy", "HyDERetrievalStrategy"}

\* a retrieve of such a strategy was called and has returned
NestedRetrieveRun ==
    /\ lib_in.called /\ lib_in.op = "retrieve" /\ LibReturned
    /\ lib_in.strategy_class \in NestingStrategies

\* the number of external calls of kind op the call made
Made(op) == Len(CallsOf(LibCalls, op))

\* how often the call invoked each timed operation or measure block:
\* retrieve once, a query processor once per LLM call it made, the block
\* around the retriever once per retriever call
Invocations ==
    CASE lib_in.strategy_class = "QueryRewriteRetrievalStrategy" ->
             [query_rewrite_retrieval |-> 1,
              query_rewrite |-> Made("rewrite_llm")]
      [] lib_in.strategy_class = "QueryDecompositionStrategy" ->
             [query_decomposition_retrieval |-> 1,
              query_decomposition |-> Made("decomposition_llm"),
              query_rewrite |-> Made("rewrite_llm")]
      [] OTHER ->
             [hyde_retrieval |-> 1,
              hyde_generate_answer |-> Made("hyde_llm"),
              generate_hypothetical_answer |-> Made("hyde_llm"),
              hyde_retrieve_with_answer |-> Made("retriever")]

\* C23: after a strategy retrieve call that runs timed Query Processor
\* operations or measure blocks on the shared statistics instance, every one
\* of these operation names, outer and nested, has its count incremented
\* once per invocation.
C23_FullTimingBreakdown ==
    NestedRetrieveRun =>
        \A operation \in DOMAIN Invocations :
            CountOf(global_timing_stats, operation) = Invocations[operation]

-----------------------------------------------------------------------------
(* Several sessions, one server *)

\* the step in which the server handles session c's request
HandleStep(c) == net[c].kind = "request" /\ net'[c].kind = "reply"

\* the messages of the turns ts, in order
RECURSIVE History(_)
History(ts) ==
    IF ts = <<>> THEN <<>>
    ELSE << HumanMessage(Head(ts).question), AIMessage(Head(ts).answer) >>
         \o History(Tail(ts))

\* the server's state changes in the handling of one request only
C24_OneAtATime ==
    <<memory, last_retrieval_metadata, request, response, trace>>'
        # <<memory, last_retrieval_metadata, request, response, trace>> =>
        \E c \in Clients :
            /\ HandleStep(c)
            /\ \A d \in Clients \ {c} : net'[d] = net[d]
            /\ request' = net[c].body
            /\ net'[c].response = response'

\* a question handled while the history holds turns, of whichever session,
\* is reformulated with all of them; an answered question adds its turn
C24_SeesAllTurns ==
    \A c \in Clients :
        HandleStep(c) /\ ~net[c].body.clear_history =>
            /\ turns # <<>> =>
                  /\ Len(CallsOf(trace', "standalone_llm")) = 1
                  /\ CallsOf(trace', "standalone_llm")[1].chat_history = History(turns)
                  /\ CallsOf(trace', "standalone_llm")[1].question = net[c].body.question
            /\ response'.status = 200 =>
                  /\ turns' = Append(turns, [client |-> c,
                                             question |-> net[c].body.question,
                                             answer |-> response'.answer])
                  /\ memory' = History(turns')

\* C24: with several clients sending /query requests to the one server,
\* requests are handled one at a time, and a query handled after another
\* client's successful query sees that client's (question, answer) pair in
\* the history used for its standalone-question reformulation: there is a
\* single conversation history shared by all callers.
C24_SharedHistory ==
    /\ [](memory = History(turns))
    /\ [][C24_OneAtATime /\ C24_SeesAllTurns]_vars

\* the second session's question was answered after the first session's: its
\* reformulation was given the first session's question and answer
C24_Witness ==
    /\ Len(turns) = 2
    /\ turns[1].client = "c1" /\ turns[2].client = "c2"
    /\ request = RequestBody(turns[2].question, FALSE, TRUE)
    /\ response.status = 200
    /\ Len(CallsOf(trace, "standalone_llm")) = 1
    /\ CallsOf(trace, "standalone_llm")[1].chat_history
           = << HumanMessage(turns[1].question), AIMessage(turns[1].answer) >>

-----------------------------------------------------------------------------
(* A query that raises *)

\* the metadata the handler of request' starts the query with
BaseMetadata == IF request'.clear_history THEN EmptyDict ELSE last_retrieval_metadata

\* the call of kind op among calls failed
FailedIn(calls, op) ==
    \E i \in 1..Len(calls) : calls[i].op = op /\ ~calls[i].out.ok

\* the step of a request whose advanced-path query raised
RaisingQueryStep ==
    /\ QueryStep
    /\ use_advanced_rag
    /\ \E op \in FallibleOps : FailedIn(trace', op)

\* C25, as claimed: an advanced-path query in which the standalone
\* reformulation, the adaptive retrieval or the answer-combination stage
\* raises leaves both the Conversation Memory and last_retrieval_metadata
\* exactly as they were before the call.
C25_FailedQueryChangesNothing ==
    [][RaisingQueryStep =>
          /\ memory' = BaseMemory
          /\ last_retrieval_metadata' = BaseMetadata]_vars

\* C25, amended: such a query leaves the Conversation Memory exactly as it
\* was before the call; last_retrieval_metadata is left as it was when the
\* reformulation or the adaptive retrieval raises, and holds the metadata of
\* the retrieval just made when the answer-combination stage raises.
C25_FailedQueryKeepsMemory ==
    [][RaisingQueryStep =>
          /\ response'.status = 500
          /\ memory' = BaseMemory
          /\ FailedIn(trace', "standalone_llm") \/ FailedIn(trace', "adaptive_retrieval") =>
                last_retrieval_metadata' = BaseMetadata
          /\ FailedIn(trace', "combine_llm") =>
                last_retrieval_metadata'
                    = CallsOf(trace', "adaptive_retrieval")[1].out.val.metadata]_vars

\* the answer-combination stage raised for a question asked after one turn:
\* the turn is still the memory, the metadata is that of the new retrieval
C25_Witness ==
    /\ response.status = 500
    /\ FailedIn(trace, "combine_llm")
    /\ Len(memory) = 2
    /\ Len(CallsOf(trace, "standalone_llm")) = 1
    /\ last_retrieval_metadata = CallsOf(trace, "adaptive_retrieval")[1].out.val.metadata
    /\ last_retrieval_metadata # EmptyDict

-----------------------------------------------------------------------------
(* The number of sub-questions *)

\* decompose_query was called and has returned
DecomposeQueryReturned ==
    lib_in.called /\ lib_in.op = "decompose_query" /\ LibReturned

\* C26: for every query and every max_subquestions >= 1, whatever the LLM
\* outputs, decompose-query returns a list of at least 1 and at most
\* max_subquestions sub-questions, and the decomposition strategy therefore
\* issues at most max_subquestions (default 3) retrievals per query.
C26_AtMostMaxSubquestions ==
    /\ DecomposeQueryReturned =>
          /\ Len(lib_out.result.val) >= 1
          /\ Len(lib_out.result.val) <= lib_in.max_subquestions
    /\ (/\ lib_in.called /\ lib_in.op = "retrieve" /\ lib_out.called
        /\ lib_in.strategy_class = "QueryDecompositionStrategy") =>
          Made("retriever") <= lib_in.max_subquestions

-----------------------------------------------------------------------------
(* The entries of the statistics *)

\* the entries get_stats returns at this moment
StatsNow == get_stats(global_timing_stats)

\* an entry as C27 describes it: counted at least once, the minimum not
\* above the maximum, the total and the average between them
C27_EntryInRange(e) ==
    /\ e.count >= 1
    /\ ~e.min_time.inf
    /\ e.min_time.x <= e.max_time
    /\ e.count * e.min_time.x <= e.total_time
    /\ e.total_time <= e.count * e.max_time
    /\ e.avg_time.den = e.count
    /\ e.avg_time.num = e.total_time
    /\ e.min_time.x * e.avg_time.den <= e.avg_time.num
    /\ e.avg_time.num <= e.max_time * e.avg_time.den

C27_EntriesInRange ==
    \A o \in DOMAIN StatsNow : C27_EntryInRange(StatsNow[o])

\* an entry stays, its count and its total do not decrease
C27_NeverDecrease ==
    \A o \in DOMAIN global_timing_stats.stats :
        /\ o \in DOMAIN global_timing_stats'.stats
        /\ global_timing_stats'.stats[o].count >= global_timing_stats.stats[o].count
        /\ global_timing_stats'.stats[o].total_time
               >= global_timing_stats.stats[o].total_time

\* C27: after any sequence of start-timer, stop-timer, measure and get-stats
\* calls (without reset), every operation present in the statistics has
\* count >= 1, min_time <= max_time, count * min_time <= total_time <=
\* count * max_time, and a derived avg_time between min_time and max_time;
\* counts and total times never decrease.
C27_StatsInvariants ==
    [](C27_EntriesInRange) /\ [][C27_NeverDecrease]_vars

\* an operation has been measured twice, with different times, the second
\* time by a measure block
C27_Witness ==
    /\ timing_last.call = "measure"
    /\ \E o \in DOMAIN StatsNow :
          /\ StatsNow[o].count = 2
          /\ StatsNow[o].min_time.x < StatsNow[o].max_time
          /\ StatsNow[o].min_time.x * 2 < StatsNow[o].total_time

====
